---- MODULE Spec2Model ----
(***************************************************************************)
(* A model of the orchestration layer of ANARCII: the chunked numbering    *)
(* run of Anarcii.number, the IMGT column order, the CSV writer, the       *)
(* window-selection tokeniser loop, the back-projection of a numbering on  *)
(* a structure chain, the coercion of input shapes, the splitting of       *)
(* paired sequences, scheme conversion with the serialisers, and the       *)
(* streamed CSV writer.                                                    *)
(***************************************************************************)
EXTENDS Integers, Sequences, FiniteSets, TLC

VARIABLES
    \* ---- Anarcii (pipeline/__init__.py) ----
    seq_type,              \* self.seq_type
    max_seqs_len,          \* self.max_seqs_len
    last_numbered_output,  \* self._last_numbered_output
    files,                 \* the msgpack files on disk, by creation order
    pc,                    \* position of the thread of control inside number()
    runs,                  \* number() calls completed on this orchestrator
    seqs,                  \* number(): the normalised mapping (its keys, in order)
    n_seqs,                \* number(): n_seqs
    serialise,             \* number(): serialise
    pos,                   \* number(): items consumed by the batched() iterator
    chunks,                \* every chunk batched() has yielded in this run
    chunk,                 \* number(): chunk (its keys, in order)
    classified,            \* number(): classified.items() not yet numbered
    numbered,              \* number(): numbered (items, in dict order)
    ret,                   \* value returned by the last number() call
    \* ---- imgt_order (output_data_processing/__init__.py) ----
    numbers,               \* the SortedSet of residue keys given to imgt_order
    ordered,               \* the keys imgt_order yields, in order
    ipc,                   \* "call" before imgt_order has run, "done" after
    \* ---- write_csv (output_data_processing/__init__.py) ----
    csv_numbered,          \* the results dictionary given to write_csv
    csv_file,              \* the file written: its header and its rows
    cpc,                   \* "call" before write_csv has run, then its outcome
    \* ---- pick_windows (input_data_processing/utils.py) ----
    win_seqs,              \* pick_windows(): seqs, each a string of residues
    fallback,              \* pick_windows(): fallback
    win_ls,                \* pick_windows(): ls, as passed to the window model
    max_index,             \* pick_windows(): the value returned
    chunk_results,         \* the results of numbering win_seqs as one chunk
    wpc,                   \* "call", then "returned" or "raised"
    \* ---- renumber_pdbx (pipeline/__init__.py) ----
    polymer,               \* the chain's residues: one-letter name and seqid
    numbering_result,      \* renumber_pdbx(): numbered
    renumbered_once,       \* the chain as the first application left it
    applications,          \* how many times renumber_pdbx has been applied
    rpc,                   \* "call", then the last application's outcome
    \* ---- coerce_input (input_data_processing/__init__.py) ----
    input_data,            \* coerce_input(): input_data
    coerced,               \* what coerce_input returned or raised
    kpc,                   \* "call", then "done"
    \* ---- split_sequences (input_data_processing/__init__.py) ----
    split_seqs,            \* split_sequences(): seqs, its items in order
    split_result,          \* the dict split_sequences returned, its items
    spc,                   \* "call", then "done"
    \* ---- Anarcii: conversion and serialisers (pipeline/methods.py) ----
    last_converted_output, \* self._last_converted_output
    alt_scheme,            \* self._alt_scheme
    written,               \* the files the serialisers have written
    call,                  \* the last method called and how it ended
    ncalls,                \* methods called so far
    \* ---- stream_csv (output_data_processing/__init__.py) ----
    stream_numbered,       \* the list of results dictionaries given to it
    stream_file,           \* the file written: its header and its rows
    tpc                    \* "call" before stream_csv has run, then its outcome

orchVars == <<seq_type, max_seqs_len, last_numbered_output, files, pc, runs,
              seqs, n_seqs, serialise, pos, chunks, chunk, classified,
              numbered, ret>>

imgtVars == <<numbers, ordered, ipc>>

\* The variables each part of the model leaves alone.
csvVars == <<csv_numbered, csv_file, cpc>>

winVars == <<win_seqs, fallback, win_ls, max_index, chunk_results, wpc>>

renVars == <<polymer, numbering_result, renumbered_once, applications, rpc>>
coerceVars == <<input_data, coerced, kpc>>
splitVars == <<split_seqs, split_result, spc>>
methVars == <<last_converted_output, alt_scheme, written, call, ncalls>>
streamVars == <<stream_numbered, stream_file, tpc>>

notOrchVars == <<imgtVars, csvVars, winVars, renVars, coerceVars, splitVars,
    methVars, streamVars>>
notImgtVars == <<orchVars, csvVars, winVars, renVars, coerceVars, splitVars,
    methVars, streamVars>>
notCsvVars == <<orchVars, imgtVars, winVars, renVars, coerceVars, splitVars,
    methVars, streamVars>>
notWinVars == <<orchVars, imgtVars, csvVars, renVars, coerceVars, splitVars,
    methVars, streamVars>>
notRenVars == <<orchVars, imgtVars, csvVars, winVars, coerceVars, splitVars,
    methVars, streamVars>>
notCoerceVars == <<orchVars, imgtVars, csvVars, winVars, renVars, splitVars,
    methVars, streamVars>>
notSplitVars == <<orchVars, imgtVars, csvVars, winVars, renVars, coerceVars,
    methVars, streamVars>>

notStreamVars == <<orchVars, imgtVars, csvVars, winVars, renVars, coerceVars,
    splitVars, methVars>>

vars == <<orchVars, imgtVars, csvVars, winVars, renVars, coerceVars,
          splitVars, methVars, streamVars>>

(***************************************************************************)
(* Bounds of the model.                                                    *)
(***************************************************************************)
MaxSeqs == 5       \* longest normalised mapping given to number()
MaxBatch == 2      \* largest max_seqs_len an orchestrator is built with
MaxRuns == 2       \* number() calls on one reused orchestrator
MaxReuseSeqs == 2  \* longest mapping given to a reused orchestrator

Names == {"s" \o ToString(i) : i \in 1..MaxSeqs}

None == [kind |-> "None"]

(***************************************************************************)
(* Generic helpers on sequences.                                           *)
(***************************************************************************)
Min(a, b) == IF a < b THEN a ELSE b
Max(a, b) == IF a > b THEN a ELSE b

Range(s) == {s[i] : i \in DOMAIN s}

IsInjective(s) == \A i, j \in DOMAIN s : s[i] = s[j] => i = j

\* All orderings of the elements of the sequence s.
Perms(s) ==
    {p \in [DOMAIN s -> Range(s)] : \A x \in Range(s) :
        Cardinality({i \in DOMAIN s : p[i] = x}) =
        Cardinality({i \in DOMAIN s : s[i] = x})}

RECURSIVE Concat(_)
Concat(ss) == IF ss = <<>> THEN <<>> ELSE Head(ss) \o Concat(Tail(ss))

IsPrefix(s, t) == Len(s) <= Len(t) /\ SubSeq(t, 1, Len(s)) = s

RECURSIVE SelectIn(_, _)
\* The subsequence of s whose elements are in the set S (order kept).
SelectIn(s, S) ==
    IF s = <<>> THEN <<>>
    ELSE IF Head(s) \in S THEN <<Head(s)>> \o SelectIn(Tail(s), S)
    ELSE SelectIn(Tail(s), S)

\* The ordered mappings over Names with at most n entries: a dict has each
\* key once.
Mappings(n) ==
    UNION {{s \in [1..k -> Names] : IsInjective(s)} : k \in 0..n}

(***************************************************************************)
(* Anarcii.number                                                          *)
(***************************************************************************)

\* pipeline/__init__.py:149  serialise := n_seqs > self.max_seqs_len
SerialiseMut(n, max_len) == n >= max_len
Serialise(n, max_len) == n > max_len

\* pipeline/__init__.py:34-42  one step of batched(iterable, n): the next
\* batch is the next n items of the iterator, fewer when it runs out.
batchedMut(items, n, consumed) ==
    SubSeq(items, Max(consumed, 1), Min(consumed + n, Len(items)))
batched(items, n, consumed) ==
    SubSeq(items, consumed + 1, Min(consumed + n, Len(items)))

\* A NumberingResult as the numbering model returns it for the sequence
\* called name, numbered with the model of type t.
Result(name, t) == [query |-> name, model |-> t]

\* msgpack items as written to the output file.
MapHeaderMut(n) == [pack |-> "map_header", n |-> n - 1, name |-> "", res |-> None]
MapHeader(n) == [pack |-> "map_header", n |-> n, name |-> "", res |-> None]
PackKey(k) == [pack |-> "str", n |-> 0, name |-> k, res |-> None]
PackValue(v) == [pack |-> "map", n |-> 0, name |-> "", res |-> v]

RECURSIVE FlattenItems(_)
\* chain.from_iterable(numbered.items()): key, value, key, value, ...
FlattenItems(items) ==
    IF items = <<>> THEN <<>>
    ELSE <<PackKey(Head(items)[1]), PackValue(Head(items)[2])>>
         \o FlattenItems(Tail(items))

\* pipeline/__init__.py:203-205  open("ab") and write every packed item.
AppendItemsMut(content, items) == <<Head(content)>> \o FlattenItems(items)
AppendItems(content, items) == content \o FlattenItems(items)

\* dict.update(other): a key already present keeps its place and takes the
\* new value, a new key is appended.
RECURSIVE DictUpdate(_, _)
DictUpdateMut(d, other) == other
DictUpdate(d, other) ==
    IF other = <<>> THEN d
    ELSE LET k == Head(other)[1]
             v == Head(other)[2]
             d2 == IF \E i \in DOMAIN d : d[i][1] = k
                   THEN [i \in DOMAIN d |->
                            IF d[i][1] = k THEN <<k, v>> ELSE d[i]]
                   ELSE Append(d, <<k, v>>)
         IN DictUpdate(d2, Tail(other))

DictKeys(d) == [i \in DOMAIN d |-> d[i][1]]

DictGet(d, k) == d[CHOOSE i \in DOMAIN d : d[i][1] = k][2]

\* pipeline/__init__.py:192  numbered[key] is defined for every key of the
\* chunk; otherwise the lookup raises KeyError.
HasKeys(num, ch) ==
    \A i \in DOMAIN ch : \E j \in DOMAIN num : num[j][1] = ch[i]

\* pipeline/__init__.py:192  {key: numbered[key] for key in chunk}
RestoreOrderMut(num, ch) == num
RestoreOrder(num, ch) == [i \in DOMAIN ch |-> <<ch[i], DictGet(num, ch[i])>>]

\* What the numbering model may return for the sequences sub numbered with
\* type t: one result per sequence, in any order.
ModelOutputs(sub, t) ==
    {[i \in DOMAIN p |-> <<p[i], Result(p[i], t)>>] : p \in Perms(sub)}

InRun == pc \notin {"idle", "returned"}

\* pipeline/__init__.py:126-165  number(): the input is normalised, the
\* output mode is decided and, in streaming mode, the file is created with
\* its map header.
NumberCall(inputs, calls) ==
    /\ pc \in {"idle", "returned"}
    /\ runs < calls
    /\ \E input \in inputs :
        /\ seqs' = input
        /\ n_seqs' = Len(input)
        /\ serialise' = Serialise(Len(input), max_seqs_len)
        /\ IF Serialise(Len(input), max_seqs_len)
           THEN /\ files' = Append(files, <<MapHeader(Len(input))>>)
                /\ last_numbered_output' =
                       [kind |-> "path", id |-> Len(files) + 1]
           ELSE UNCHANGED <<files, last_numbered_output>>
    /\ pos' = 0
    /\ chunks' = <<>>
    /\ chunk' = <<>>
    /\ classified' = <<>>
    /\ numbered' = <<>>
    /\ pc' = "loop"
    /\ UNCHANGED <<seq_type, max_seqs_len, runs, ret>>
    /\ UNCHANGED notOrchVars

\* number() called once on a fresh orchestrator.
NumberBegin == NumberCall(Mappings(MaxSeqs), 1)

\* number() called again and again on one orchestrator.
NumberAgain == NumberCall(Mappings(MaxReuseSeqs), MaxRuns)

\* The place of the loop at which the next chunk is taken.
AtLoopHeadMut == pc \in {"loop", "emit"}
AtLoopHead == pc = "loop"

\* pipeline/__init__.py:167-168  the for loop takes the next chunk.
NextChunk ==
    /\ AtLoopHead
    /\ pos < Len(seqs)
    /\ LET b == batched(seqs, max_seqs_len, pos) IN
        /\ chunk' = b
        /\ chunks' = Append(chunks, b)
        /\ pos' = pos + Len(b)
    /\ numbered' = <<>>
    /\ classified' = <<>>
    /\ pc' = IF seq_type = "unknown" THEN "classify" ELSE "number"
    /\ UNCHANGED <<seq_type, max_seqs_len, last_numbered_output, files, runs,
                   seqs, n_seqs, serialise, ret>>
    /\ UNCHANGED notOrchVars

\* pipeline/__init__.py:173-175  the classifier partitions the chunk by
\* type; a group keeps the chunk's order, the groups come in either order.
Classify ==
    /\ pc = "classify"
    /\ \E ab \in SUBSET Range(chunk) : \E abFirst \in BOOLEAN :
        LET a == <<"antibody", SelectIn(chunk, ab)>>
            t == <<"tcr", SelectIn(chunk, Range(chunk) \ ab)>>
            groups == IF abFirst THEN <<a, t>> ELSE <<t, a>>
        IN classified' = SelectSeq(groups, LAMBDA g : g[2] # <<>>)
    /\ pc' = "number_classified"
    /\ UNCHANGED <<seq_type, max_seqs_len, last_numbered_output, files, runs,
                   seqs, n_seqs, serialise, pos, chunks, chunk, numbered, ret>>
    /\ UNCHANGED notOrchVars

\* pipeline/__init__.py:184-186  one turn of the loop over
\* classified.items(): numbered.update(self.number_with_type(...)).
NumberClassified ==
    /\ pc = "number_classified"
    /\ classified # <<>>
    /\ \E out \in ModelOutputs(Head(classified)[2], Head(classified)[1]) :
        numbered' = DictUpdate(numbered, out)
    /\ classified' = Tail(classified)
    /\ UNCHANGED <<seq_type, max_seqs_len, last_numbered_output, files, pc,
                   runs, seqs, n_seqs, serialise, pos, chunks, chunk, ret>>
    /\ UNCHANGED notOrchVars

\* pipeline/__init__.py:189  numbered = self.number_with_type(chunk, ...)
NumberWithType ==
    /\ pc = "number"
    /\ numbered' \in ModelOutputs(chunk, seq_type)
    /\ pc' = "rekey"
    /\ UNCHANGED <<seq_type, max_seqs_len, last_numbered_output, files, runs,
                   seqs, n_seqs, serialise, pos, chunks, chunk, classified,
                   ret>>
    /\ UNCHANGED notOrchVars

\* pipeline/__init__.py:191-192  the chunk's key order is restored (after
\* the last classified group when the type is unknown).
Rekey ==
    /\ \/ pc = "rekey"
       \/ pc = "number_classified" /\ classified = <<>>
    /\ IF HasKeys(numbered, chunk)
       THEN /\ numbered' = RestoreOrder(numbered, chunk)
            /\ pc' = "emit"
       ELSE /\ pc' = "KeyError"
            /\ UNCHANGED numbered
    /\ UNCHANGED <<seq_type, max_seqs_len, last_numbered_output, files, runs,
                   seqs, n_seqs, serialise, pos, chunks, chunk, classified,
                   ret>>
    /\ UNCHANGED notOrchVars

\* pipeline/__init__.py:200-207  the chunk's results are appended to the
\* file, or become the retained output.
Emit ==
    /\ pc = "emit"
    /\ IF serialise
       THEN /\ files' = [files EXCEPT ![last_numbered_output.id] =
                            AppendItems(@, numbered)]
            /\ UNCHANGED last_numbered_output
       ELSE /\ last_numbered_output' = [kind |-> "dict", items |-> numbered]
            /\ UNCHANGED files
    /\ pc' = "loop"
    /\ UNCHANGED <<seq_type, max_seqs_len, runs, seqs, n_seqs, serialise, pos,
                   chunks, chunk, classified, numbered, ret>>
    /\ UNCHANGED notOrchVars

\* pipeline/__init__.py:213-216  the loop is over: return the retained
\* output (legacy_format is False).
NumberReturn ==
    /\ pc = "loop"
    /\ pos >= Len(seqs)
    /\ ret' = last_numbered_output
    /\ runs' = runs + 1
    /\ pc' = "returned"
    /\ UNCHANGED <<seq_type, max_seqs_len, last_numbered_output, files, seqs,
                   n_seqs, serialise, pos, chunks, chunk, classified,
                   numbered>>
    /\ UNCHANGED notOrchVars

\* imgt_order is not in use.
ImgtIdle == numbers = {} /\ ordered = <<>> /\ ipc = "idle"

\* write_csv is not in use.
CsvIdle == csv_numbered = <<>> /\ csv_file = <<>> /\ cpc = "idle"

\* pick_windows is not in use.
WinIdle ==
    /\ win_seqs = <<>>
    /\ fallback = FALSE
    /\ win_ls = <<>>
    /\ max_index = <<>>
    /\ chunk_results = <<>>
    /\ wpc = "idle"

\* renumber_pdbx is not in use.
RenIdle ==
    /\ polymer = <<>>
    /\ numbering_result = None
    /\ renumbered_once = None
    /\ applications = 0
    /\ rpc = "idle"

\* coerce_input is not in use.
CoerceIdle ==
    /\ input_data = None
    /\ coerced = None
    /\ kpc = "idle"

\* split_sequences is not in use.
SplitIdle == split_seqs = <<>> /\ split_result = <<>> /\ spc = "idle"

\* pipeline/__init__.py:110-113  no conversion has been made and no
\* serialiser called.
MethIdle ==
    /\ last_converted_output = None
    /\ alt_scheme = None
    /\ written = <<>>
    /\ call = None
    /\ ncalls = 0

\* stream_csv is not in use.
StreamIdle == stream_numbered = <<>> /\ stream_file = <<>> /\ tpc = "idle"

\* The parts of the model a specification does not use.
OthersIdle == SplitIdle /\ MethIdle /\ StreamIdle

\* pipeline/__init__.py:91-113  Anarcii.__init__
OrchInit ==
    /\ seq_type \in {"antibody", "unknown"}
    /\ max_seqs_len \in 1..MaxBatch
    /\ last_numbered_output = None
    /\ files = <<>>
    /\ pc = "idle"
    /\ runs = 0
    /\ seqs = <<>>
    /\ n_seqs = 0
    /\ serialise = FALSE
    /\ pos = 0
    /\ chunks = <<>>
    /\ chunk = <<>>
    /\ classified = <<>>
    /\ numbered = <<>>
    /\ ret = None

\* No orchestrator is in use.
OrchIdle ==
    /\ seq_type = "antibody"
    /\ max_seqs_len = 1
    /\ last_numbered_output = None
    /\ files = <<>>
    /\ pc = "idle"
    /\ runs = 0
    /\ seqs = <<>>
    /\ n_seqs = 0
    /\ serialise = FALSE
    /\ pos = 0
    /\ chunks = <<>>
    /\ chunk = <<>>
    /\ classified = <<>>
    /\ numbered = <<>>
    /\ ret = None

Init ==
    OrchInit /\ ImgtIdle /\ CsvIdle /\ WinIdle /\ RenIdle /\ CoerceIdle
        /\ OthersIdle

Next ==
    \/ NumberBegin
    \/ NextChunk
    \/ Classify
    \/ NumberClassified
    \/ NumberWithType
    \/ Rekey
    \/ Emit
    \/ NumberReturn

Spec == Init /\ [][Next]_vars

NextReuse ==
    \/ NumberAgain
    \/ NextChunk
    \/ Classify
    \/ NumberClassified
    \/ NumberWithType
    \/ Rekey
    \/ Emit
    \/ NumberReturn

\* One orchestrator, number() called several times on it.
SpecReuse == Init /\ [][NextReuse]_vars

(***************************************************************************)
(* Claims about Anarcii.number                                             *)
(***************************************************************************)

RECURSIVE StreamKeys(_)
\* The keys of the msgpack map stored in a file, in file order.
StreamKeys(content) ==
    IF content = <<>> THEN <<>>
    ELSE IF Head(content).pack = "str"
         THEN <<Head(content).name>> \o StreamKeys(Tail(content))
         ELSE StreamKeys(Tail(content))

\* The keys of the entries a value returned by number() exposes, in order.
ExposedKeys(v) ==
    IF v.kind = "dict" THEN DictKeys(v.items)
    ELSE IF v.kind = "path" THEN StreamKeys(files[v.id])
    ELSE <<>>

\* The chunks of this run whose processing is over.
CompletedChunks ==
    IF pc \in {"loop", "returned", "idle"} THEN chunks
    ELSE SubSeq(chunks, 1, Len(chunks) - 1)

CeilDiv(n, m) == (n + m - 1) \div m

\* C1: when number() returns, the entries it exposes (the returned
\* ResultSet, or the entries of the returned stream) have exactly the keys
\* of the normalised input mapping, in the mapping's order.
C1_OrderPreserved == pc = "returned" => ExposedKeys(ret) = seqs

\* The part of C1 the code keeps: a run over a non-empty mapping exposes
\* the mapping's keys in order, whatever the chunking, the classification
\* and the order of the model's results.
OrderPreservedNonEmpty ==
    (pc = "returned" /\ n_seqs > 0) => ExposedKeys(ret) = seqs

\* C2: the chunks of a run are contiguous and non-overlapping, their
\* concatenation is the input mapping, there are ceil(n/m) of them, and
\* each has exactly m entries except the last, which has 1..m.
C2_ChunkBoundaries ==
    /\ InRun =>
        /\ IsPrefix(Concat(chunks), seqs)
        /\ Len(Concat(chunks)) = pos
        /\ \A i \in DOMAIN chunks : i < Len(chunks) =>
               Len(chunks[i]) = max_seqs_len
        /\ \A i \in DOMAIN chunks :
               Len(chunks[i]) >= 1 /\ Len(chunks[i]) <= max_seqs_len
    /\ pc = "returned" =>
        /\ Concat(chunks) = seqs
        /\ Len(chunks) = CeilDiv(Len(seqs), max_seqs_len)
        /\ \A i \in DOMAIN chunks : i < Len(chunks) =>
               Len(chunks[i]) = max_seqs_len
        /\ \A i \in DOMAIN chunks :
               Len(chunks[i]) >= 1 /\ Len(chunks[i]) <= max_seqs_len

\* Five sequences with max_batch = 2 were cut into chunks of 2, 2 and 1.
C2_Witness ==
    /\ pc = "returned"
    /\ Len(seqs) = 5
    /\ max_seqs_len = 2
    /\ [i \in DOMAIN chunks |-> Len(chunks[i])] = <<2, 2, 1>>

\* C3: streaming is chosen exactly when the mapping has more than
\* max_seqs_len entries (and the output file exists exactly then); the
\* choice is made when the run starts, before any chunk is taken, and no
\* later step of the run changes it.
C3_StreamingDecision ==
    /\ [](pc # "idle" =>
            /\ serialise <=> (Len(seqs) > max_seqs_len)
            /\ serialise <=> (Len(files) > 0))
    /\ [][pc # "idle" => serialise' = serialise]_vars
    /\ [][pc = "idle" => chunks' = <<>>]_vars

\* A run over max_seqs_len + 1 sequences has streamed its two chunks.
C3_Witness ==
    /\ pc = "returned"
    /\ serialise
    /\ Len(seqs) = max_seqs_len + 1
    /\ Len(chunks) = 2

\* C4: in streaming mode the file starts with the header declaring the
\* entry count before any chunk is taken; while a chunk is being processed
\* the file holds the entries of the completed chunks only; and no step
\* changes what a file already holds.
C4_HeaderThenAppendOnly ==
    /\ [](\A i \in DOMAIN files :
            /\ files[i][1] = MapHeader(n_seqs)
            /\ \A j \in 2..Len(files[i]) : files[i][j].pack # "map_header"
            /\ StreamKeys(files[i]) = Concat(CompletedChunks)
            /\ Len(files[i]) = 1 + 2 * Len(Concat(CompletedChunks)))
    /\ []((serialise /\ pc # "idle") => Len(files) = 1)
    /\ [][\A i \in DOMAIN files :
            /\ i \in DOMAIN files'
            /\ IsPrefix(files[i], files'[i])
            /\ (files'[i] # files[i] => pc = "emit" /\ pc' = "loop")]_vars

\* A streaming run ended with a file of the header and every entry of its
\* three chunks.
C4_Witness ==
    /\ pc = "returned"
    /\ serialise
    /\ Len(chunks) = 3
    /\ Len(files[1]) = 1 + 2 * n_seqs
    /\ files[1][1] = MapHeader(n_seqs)

(***************************************************************************)
(* imgt_order (output_data_processing/__init__.py)                         *)
(*                                                                         *)
(* A residue key is the tuple (position, insertion).  The insertion is a   *)
(* one-character string; it is held here as its code point, which is what  *)
(* Python compares: " " is 32, "A" is 65, "B" is 66, ...                   *)
(***************************************************************************)
MaxIns == 2        \* insertion letters in use: "A" .. chr(64 + MaxIns)
MaxKeys == 3       \* size of the key sets imgt_order is tried on

Blank == 32
LetterA == 65

InsCodes == {Blank} \cup (LetterA..(LetterA + MaxIns - 1))

\* Positions below, at, between and above the three boundaries.
Positions == {-1, 0, 32, 33, 34, 60, 61, 62, 111, 112, 113}

ResidueKeys == Positions \X InsCodes

\* Keys 111, 111A, 112A, 112B, 112, 113.
ExampleKeys ==
    {<<111, Blank>>, <<111, LetterA>>, <<112, LetterA>>,
     <<112, LetterA + 1>>, <<112, Blank>>, <<113, Blank>>}

RECURSIVE SubsetsUpTo(_, _)
\* The subsets of S with at most n elements.
SubsetsUpTo(S, n) ==
    IF n = 0 THEN {{}}
    ELSE LET smaller == SubsetsUpTo(S, n - 1)
         IN smaller \cup {T \cup {x} : T \in smaller, x \in S}

\* output_data_processing/__init__.py:15
imgt_reversed == <<33, 61, 112>>

RECURSIVE TupleLT(_, _)
\* Python's a < b on tuples: the first differing element decides, and a
\* proper prefix is smaller.
TupleLT(a, b) ==
    IF b = <<>> THEN FALSE
    ELSE IF a = <<>> THEN TRUE
    ELSE IF Head(a) # Head(b) THEN Head(a) < Head(b)
    ELSE TupleLT(Tail(a), Tail(b))

TupleLE(a, b) == a = b \/ TupleLT(a, b)

RECURSIVE SortSmall(_)
\* The values of S in ascending order, least first.
SortSmall(S) ==
    IF S = {} THEN <<>>
    ELSE LET m == CHOOSE x \in S : \A y \in S : TupleLE(x, y)
         IN <<m>> \o SortSmall(S \ {m})

RECURSIVE SortRange(_, _, _)
\* The tuples of S, whose first elements are in lo..hi, in ascending order:
\* those with the smaller first elements come first.
SortRange(S, lo, hi) ==
    IF S = {} THEN <<>>
    ELSE IF lo = hi THEN SortSmall(S)
    ELSE LET mid == (lo + hi) \div 2
             lower == {k \in S : k[1] <= mid}
         IN SortRange(lower, lo, mid) \o SortRange(S \ lower, mid + 1, hi)

\* Iteration over a SortedSet of tuples: ascending.
SortedSeq(S) ==
    IF S = {} THEN <<>>
    ELSE LET firsts == {k[1] : k \in S}
         IN SortRange(S, CHOOSE p \in firsts : \A q \in firsts : p <= q,
                         CHOOSE p \in firsts : \A q \in firsts : p >= q)

Reverse(s) == [i \in DOMAIN s |-> s[Len(s) + 1 - i]]

NoBound == [bounded |-> FALSE, key |-> <<>>]
Bound(k) == [bounded |-> TRUE, key |-> k]

\* SortedSet.irange(minimum, maximum, inclusive, reverse): the values
\* between the bounds (an end without bound when it is None), ascending,
\* or descending when reverse is set.
irangeMut(S, minimum, maximum, incMin, incMax, reverse) ==
    SortedSeq({k \in S :
        /\ minimum.bounded =>
              IF incMin THEN TupleLE(minimum.key, k)
              ELSE TupleLT(minimum.key, k)
        /\ maximum.bounded =>
              IF incMax THEN TupleLE(k, maximum.key)
              ELSE TupleLT(k, maximum.key)})
irange(S, minimum, maximum, incMin, incMax, reverse) ==
    LET asc == SortedSeq({k \in S :
                /\ minimum.bounded =>
                      IF incMin THEN TupleLE(minimum.key, k)
                      ELSE TupleLT(minimum.key, k)
                /\ maximum.bounded =>
                      IF incMax THEN TupleLE(k, maximum.key)
                      ELSE TupleLT(k, maximum.key)})
    IN IF reverse THEN Reverse(asc) ELSE asc

\* The two segments yielded for the i-th pair (low, high) of
\* pairwise((None, 33, 61, 112)): the keys from low + 1 (from the start
\* when low is None) up to high, excluded, and then the keys at high,
\* reversed.
SegmentPairMut(S, i) ==
    LET high == imgt_reversed[i]
        lower == IF i = 1 THEN NoBound ELSE Bound(<<imgt_reversed[i - 1]>>)
    IN irange(S, lower, Bound(<<high>>), TRUE, FALSE, FALSE)
       \o irange(S, Bound(<<high>>), Bound(<<high + 1>>), TRUE, FALSE, TRUE)
SegmentPair(S, i) ==
    LET high == imgt_reversed[i]
        lower == IF i = 1 THEN NoBound ELSE Bound(<<imgt_reversed[i - 1] + 1>>)
    IN irange(S, lower, Bound(<<high>>), TRUE, FALSE, FALSE)
       \o irange(S, Bound(<<high>>), Bound(<<high + 1>>), TRUE, FALSE, TRUE)

\* output_data_processing/__init__.py:37-69  the segments, chained.
imgt_order(S) ==
    SegmentPair(S, 1) \o SegmentPair(S, 2) \o SegmentPair(S, 3)
    \o irange(S, Bound(<<imgt_reversed[3] + 1>>), NoBound, TRUE, TRUE, FALSE)

\* imgt_order is called on a set of residue keys.
ImgtOrder ==
    /\ ipc = "call"
    /\ ordered' = imgt_order(numbers)
    /\ ipc' = "done"
    /\ UNCHANGED numbers
    /\ UNCHANGED notImgtVars

ImgtInit ==
    /\ numbers \in SubsetsUpTo(ResidueKeys, MaxKeys) \cup {ExampleKeys}
    /\ ordered = <<>>
    /\ ipc = "call"
    /\ OrchIdle
    /\ CsvIdle
    /\ WinIdle
    /\ RenIdle
    /\ CoerceIdle
    /\ OthersIdle

ImgtNext == ImgtOrder

SpecImgt == ImgtInit /\ [][ImgtNext]_vars

\* The order C5 describes, key by key: by position, and within a position
\* by insertion, ascending, except at 33, 61 and 112, where the insertions
\* descend and the blank insertion comes last.
ClaimedBefore(a, b) ==
    \/ a[1] < b[1]
    \/ /\ a[1] = b[1]
       /\ IF a[1] \in {33, 61, 112}
          THEN a[2] # Blank /\ (b[2] = Blank \/ a[2] > b[2])
          ELSE a[2] < b[2]

\* C5: imgt_order emits the keys below 33 ascending, the keys at 33 with
\* descending insertions and the blank one last, the keys between 33 and
\* 61 ascending, those at 61 descending, those between 61 and 112
\* ascending, those at 112 descending and those above 112 ascending; the
\* keys 111, 111A, 112A, 112B, 112, 113 come out as 111, 111A, 112B, 112A,
\* 112, 113.
C5_ImgtOrder ==
    ipc = "done" =>
        /\ Len(ordered) = Cardinality(numbers)
        /\ Range(ordered) = numbers
        /\ \A i, j \in DOMAIN ordered :
               i < j => ClaimedBefore(ordered[i], ordered[j])
        /\ numbers = ExampleKeys =>
               ordered = <<<<111, Blank>>, <<111, LetterA>>,
                           <<112, LetterA + 1>>, <<112, LetterA>>,
                           <<112, Blank>>, <<113, Blank>>>>

\* The example of C5 has been ordered.
C5_Witness ==
    /\ ipc = "done"
    /\ numbers = ExampleKeys
    /\ ordered[3] = <<112, LetterA + 1>>
    /\ ordered[5] = <<112, Blank>>

(***************************************************************************)
(* write_csv (output_data_processing/__init__.py)                          *)
(***************************************************************************)
MaxCsvSeqs == 2    \* sequences in a results dictionary given to write_csv
MaxCsvKeys == 2    \* numbered residues of one of these sequences

\* output_data_processing/__init__.py:98  range(1, 129)
RequiredPositions == 128

\* The residue keys the numberings given to write_csv are made of: inside
\* and outside 1..128, with and without an insertion letter.
CsvKeys == {<<0, Blank>>, <<2, Blank>>, <<33, LetterA>>, <<129, Blank>>}

Letters == <<"A", "B", "C", "D", "E", "F", "G", "H">>

\* The insertion character of a key, from its code point.
Chr(c) == IF c = Blank THEN " " ELSE Letters[c - LetterA + 1]

\* str.strip() of a one-character string.
Strip(c) == IF c = " " THEN "" ELSE c

\* output_data_processing/__init__.py:34 and 123  str(num) + ins.strip()
ColumnNameMut(k) == ToString(k[1])
ColumnName(k) == ToString(k[1]) \o Strip(Chr(k[2]))

\* The residue letter the numberings below put at a key ("-" is a gap the
\* model numbered explicitly).
ResidueAt(k) == IF k[1] = 2 THEN "-" ELSE "Q"

\* A numbered result with the residues at the keys T, and a failed one.
Numbered(T, scheme) ==
    [numbering |-> [i \in 1..Cardinality(T) |->
                       <<SortedSeq(T)[i], ResidueAt(SortedSeq(T)[i])>>],
     chain_type |-> "H", score |-> 1, query_start |-> 0, query_end |-> 9,
     scheme |-> scheme]
Failed(scheme) ==
    [numbering |-> <<>>, chain_type |-> "F", score |-> 0,
     query_start |-> "None", query_end |-> "None", scheme |-> scheme]

CsvResults(scheme) ==
    {Numbered(T, scheme) : T \in SubsetsUpTo(CsvKeys, MaxCsvKeys)}
    \cup {Failed(scheme)}

\* The results dictionaries write_csv is tried on: up to MaxCsvSeqs
\* sequences numbered in one scheme.
CsvInputs ==
    UNION {{[i \in 1..n |-> <<"s" \o ToString(i), r[i]>>] :
               r \in [1..n -> CsvResults(scheme)]} :
           n \in 0..MaxCsvSeqs, scheme \in {"imgt", "kabat"}}

\* output_data_processing/__init__.py:97
metadata_columns == <<"Name", "Chain", "Score", "Query start", "Query end">>

\* output_data_processing/__init__.py:98-99
required_residue_numbers == {<<i, Blank>> : i \in 1..RequiredPositions}

\* output_data_processing/__init__.py:102-104  residue_numbers after the
\* loop over the results.
ObservedKeys(d) ==
    UNION {{d[i][2].numbering[j][1] : j \in DOMAIN d[i][2].numbering} :
           i \in DOMAIN d}

\* output_data_processing/__init__.py:18-34 and 106-115  the row of one
\* result, as a dictionary: a later pair replaces an earlier one with the
\* same key.
RowDict(name, result) ==
    DictUpdate(<<>>,
        <<<<"Name", name>>, <<"Chain", result.chain_type>>,
          <<"Score", result.score>>, <<"Query start", result.query_start>>,
          <<"Query end", result.query_end>>>>
        \o [j \in DOMAIN result.numbering |->
               <<ColumnName(result.numbering[j][1]), result.numbering[j][2]>>])

\* csv.DictWriter(fieldnames, restval="-").writerow(rowdict)
WriteRowMut(fieldnames, rowdict) ==
    [c \in DOMAIN fieldnames |->
        IF \E i \in DOMAIN rowdict : rowdict[i][1] = fieldnames[c]
        THEN DictGet(rowdict, fieldnames[c]) ELSE ""]
WriteRow(fieldnames, rowdict) ==
    [c \in DOMAIN fieldnames |->
        IF \E i \in DOMAIN rowdict : rowdict[i][1] = fieldnames[c]
        THEN DictGet(rowdict, fieldnames[c]) ELSE "-"]

\* output_data_processing/__init__.py:117-124  the columns.
CsvColumns(d) ==
    LET residue_numbers == required_residue_numbers \cup ObservedKeys(d)
        result == d[Len(d)][2]
        in_order == IF result.scheme = "imgt"
                    THEN imgt_order(residue_numbers)
                    ELSE SortedSeq(residue_numbers)
    IN metadata_columns \o [i \in DOMAIN in_order |-> ColumnName(in_order[i])]

\* output_data_processing/__init__.py:97-129  write_csv.  With no result
\* in the dictionary the name result is unbound at line 119 and the call
\* raises before the file is opened.
WriteCsv ==
    /\ cpc = "call"
    /\ IF csv_numbered = <<>>
       THEN /\ cpc' = "raised"
            /\ UNCHANGED csv_file
       ELSE /\ cpc' = "written"
            /\ csv_file' =
                 LET columns == CsvColumns(csv_numbered) IN
                 <<columns>> \o
                 [i \in DOMAIN csv_numbered |->
                     WriteRow(columns,
                              RowDict(csv_numbered[i][1], csv_numbered[i][2]))]
    /\ UNCHANGED csv_numbered
    /\ UNCHANGED notCsvVars

CsvInit ==
    /\ csv_numbered \in CsvInputs
    /\ csv_file = <<>>
    /\ cpc = "call"
    /\ OrchIdle
    /\ ImgtIdle
    /\ WinIdle
    /\ RenIdle
    /\ CoerceIdle
    /\ OthersIdle

CsvNext == WriteCsv

SpecCsv == CsvInit /\ [][CsvNext]_vars

\* The residue keys of sequence i of the results dictionary d.
KeysOf(d, i) == {d[i][2].numbering[j][1] : j \in DOMAIN d[i][2].numbering}

\* C6: the header written for a non-empty results dictionary is Name,
\* Chain, Score, Query start, Query end and then exactly one column for
\* every residue key of any sequence and for every position 1..128 with a
\* blank insertion; and in every row, a residue column whose key the
\* sequence does not have holds "-".
C6_CsvColumns ==
    cpc = "written" =>
        LET header == csv_file[1]
            keys == ObservedKeys(csv_numbered) \cup
                    {<<p, Blank>> : p \in 1..128}
        IN /\ Len(csv_file) = 1 + Len(csv_numbered)
           /\ SubSeq(header, 1, 5) =
                  <<"Name", "Chain", "Score", "Query start", "Query end">>
           /\ Len(header) = 5 + Cardinality(keys)
           /\ {header[c] : c \in 6..Len(header)} =
                  {ToString(k[1]) \o (IF k[2] = Blank THEN "" ELSE Chr(k[2])) :
                      k \in keys}
           /\ \A i \in DOMAIN csv_numbered :
                  LET own == {ToString(k[1]) \o
                                 (IF k[2] = Blank THEN "" ELSE Chr(k[2])) :
                              k \in KeysOf(csv_numbered, i)}
                  IN /\ Len(csv_file[1 + i]) = Len(header)
                     /\ \A c \in 6..Len(header) :
                            header[c] \notin own => csv_file[1 + i][c] = "-"

\* A file was written for two sequences, one with a residue at the
\* insertion 33A and one failed: the column 33A exists next to the 128
\* required ones and the failed sequence has "-" in it.
C6_Witness ==
    /\ cpc = "written"
    /\ Len(csv_numbered) = 2
    /\ KeysOf(csv_numbered, 1) = {<<33, LetterA>>}
    /\ csv_numbered[2][2].chain_type = "F"
    /\ Len(csv_file[1]) = 5 + 128 + 1
    /\ \E c \in 6..Len(csv_file[1]) :
           /\ csv_file[1][c] = "33A"
           /\ csv_file[2][c] = "Q"
           /\ csv_file[3][c] = "-"

(***************************************************************************)
(* pick_windows (input_data_processing/utils.py)                           *)
(*                                                                         *)
(* The tokeniser, the window model and the numbering of a chunk are        *)
(* collaborators whose code is elsewhere; they are modelled from their     *)
(* contracts.                                                              *)
(***************************************************************************)
MaxWinSeqs == 3    \* sequences in the list given to pick_windows
MaxWindow == 1     \* largest window index the window model answers

\* The strings pick_windows is tried on; "!" is no residue of the
\* vocabulary.
WinStrings == {<<>>, <<"C">>, <<"A", "C">>, <<"!">>, <<"A", "!">>}

WinInputs == UNION {[1..n -> WinStrings] : n \in 0..MaxWinSeqs}

\* The tokeniser's vocabulary: char_to_int.
CharToInt ==
    [c \in {"<SOS>", "<EOS>", "A", "C"} |->
        CASE c = "<SOS>" -> 1 [] c = "<EOS>" -> 2 [] c = "A" -> 3 [] c = "C" -> 4]

KeyError == [raised |-> "KeyError"]

\* sequence_tokeniser.encode(ls): the token of every character, or a
\* KeyError when a character is not in the vocabulary.
Encode(ls) ==
    IF \A i \in DOMAIN ls : ls[i] \in DOMAIN CharToInt
    THEN [i \in DOMAIN ls |-> CharToInt[ls[i]]]
    ELSE KeyError

\* input_data_processing/utils.py:20-27  one turn of the loop: the entry
\* appended to ls for seq.
TokenisedEntryMut(seq) ==
    LET bookend_seq == <<"<SOS>">> \o seq \o <<"<EOS>">>
        tokenised_seq == Encode(bookend_seq)
    IN IF tokenised_seq = KeyError THEN <<>> ELSE <<tokenised_seq>>
TokenisedEntry(seq) ==
    LET bookend_seq == <<"<SOS>">> \o seq \o <<"<EOS>">>
        tokenised_seq == Encode(bookend_seq)
    IN IF tokenised_seq = KeyError THEN <<<<>>>> ELSE <<tokenised_seq>>

RECURSIVE TokeniseAll(_)
\* input_data_processing/utils.py:18-27  ls after the loop.
TokeniseAll(ss) ==
    IF ss = <<>> THEN <<>>
    ELSE TokenisedEntry(Head(ss)) \o TokeniseAll(Tail(ss))

\* WindowFinder.__call__(ls, fallback): a window index for every entry of
\* ls, or one shared index in fallback mode; an empty entry does not make
\* it fail.
WindowModel(ls, fb) ==
    IF fb THEN 0..MaxWindow ELSE [DOMAIN ls -> 0..MaxWindow]

\* The numbering of one sequence of a chunk: a failed result when its
\* tokenisation fails.
NumberOne(seq) ==
    IF Encode(<<"<SOS>">> \o seq \o <<"<EOS>">>) = KeyError
    THEN [chain_type |-> "F", error |-> "invalid residue", sequence |-> seq]
    ELSE [chain_type |-> "H", error |-> "None", sequence |-> seq]

\* SequenceProcessor.process_sequences and the numbering model on a chunk:
\* one result per sequence, at its position.
NumberChunk(ss) == [i \in DOMAIN ss |-> NumberOne(ss[i])]

\* input_data_processing/utils.py:13-30  pick_windows.
PickWindows ==
    /\ wpc = "call"
    /\ LET ls == TokeniseAll(win_seqs) IN
        /\ win_ls' = ls
        /\ max_index' \in WindowModel(ls, fallback)
    /\ wpc' = "returned"
    /\ UNCHANGED <<win_seqs, fallback, chunk_results>>
    /\ UNCHANGED notWinVars

\* The sequences are numbered as one chunk.
ProcessChunk ==
    /\ wpc = "returned"
    /\ chunk_results = <<>>
    /\ win_seqs # <<>>
    /\ chunk_results' = NumberChunk(win_seqs)
    /\ UNCHANGED <<win_seqs, fallback, win_ls, max_index, wpc>>
    /\ UNCHANGED notWinVars

WinInit ==
    /\ win_seqs \in WinInputs
    /\ fallback \in BOOLEAN
    /\ win_ls = <<>>
    /\ max_index = <<>>
    /\ chunk_results = <<>>
    /\ wpc = "call"
    /\ OrchIdle
    /\ ImgtIdle
    /\ CsvIdle
    /\ RenIdle
    /\ CoerceIdle
    /\ OthersIdle

WinNext == PickWindows \/ ProcessChunk

SpecWindows == WinInit /\ [][WinNext]_vars

\* Whether every character of a string is a residue of the vocabulary.
AllResidues(seq) == \A i \in DOMAIN seq : seq[i] \in {"A", "C"}

MaxChain == 3         \* residues in the chain
MaxNumbering == 3     \* entries in the numbering, gaps included
MaxQueryStart == 1    \* largest query_start the model reports
MaxApply == 2         \* applications of renumber_pdbx to one chain

\* The number of the numbering's first entry.
FirstNumbers == {1, 2}

\* The seqid of the chain's first residue in the file, less one.
FileStarts == {0, 5}

Chains ==
    UNION {{[i \in 1..n |-> [name |-> names[i], seqid |-> <<start + i, " ">>]] :
                names \in [1..n -> {"A", "C"}], start \in FileStarts} :
           n \in 1..MaxChain}

NumberingResults ==
    UNION {{[numbering |-> [i \in 1..n |-> <<<<first + i - 1, " ">>, res[i]>>],
             query_start |-> q] :
                res \in [1..n -> {"A", "C", "-"}],
                first \in FirstNumbers,
                q \in 0..MaxQueryStart} :
           n \in 0..MaxNumbering}

\* pipeline/__init__.py:263  the numbering without its gap marks.
NoGaps(numbered_) == SelectSeq(numbered_.numbering, LAMBDA e : e[2] # "-")

\* pipeline/__init__.py:271  polymer.make_one_letter_sequence()
OneLetterSequence(span) == [i \in DOMAIN span |-> span[i].name]

\* pipeline/__init__.py:271  str.index: the first place, counted from 0,
\* where sub occurs in s, or a ValueError.
IndexMut(s, sub) ==
    LET places == {i \in 0..(Len(s) - Len(sub)) :
                       SubSeq(s, i + 1, i + Len(sub)) = sub}
    IN IF places = {} THEN [raised |-> "ValueError", at |-> 0]
       ELSE [raised |-> "None",
             at |-> CHOOSE i \in places : \A j \in places : i >= j]
Index(s, sub) ==
    LET places == {i \in 0..(Len(s) - Len(sub)) :
                       SubSeq(s, i + 1, i + Len(sub)) = sub}
    IN IF places = {} THEN [raised |-> "ValueError", at |-> 0]
       ELSE [raised |-> "None",
             at |-> CHOOSE i \in places : \A j \in places : i <= j]

\* pipeline/__init__.py:269-274  the numbering offset.
Offset(span, numbered_) ==
    LET sequence == [i \in DOMAIN NoGaps(numbered_) |-> NoGaps(numbered_)[i][2]]
        found == Index(OneLetterSequence(span), sequence)
    IN IF found.raised = "ValueError" THEN numbered_.query_start ELSE found.at

\* pipeline/__init__.py:265-278  the numbers to write: the backfill and
\* then the numbering's own.
NumbersToWrite(span, numbered_) ==
    LET numbers_ == [i \in DOMAIN NoGaps(numbered_) |-> NoGaps(numbered_)[i][1]]
        first_number == numbers_[1][1]
        offset == Offset(span, numbered_)
        backfill == [i \in 1..offset |-> <<first_number - offset + i - 1, " ">>]
    IN backfill \o numbers_

\* pipeline/__init__.py:282  residue.seqid = gemmi.SeqId(*number)
WriteSeqidMut(residue, number) ==
    [residue EXCEPT !.seqid = <<residue.seqid[1] + number[1], number[2]>>]
WriteSeqid(residue, number) ==
    [residue EXCEPT !.seqid = number]

\* pipeline/__init__.py:281-282  zip(polymer, numbers) stops at the shorter
\* of the two.
WriteNumbers(span, numbers_) ==
    [i \in DOMAIN span |->
        IF i <= Len(numbers_) THEN WriteSeqid(span[i], numbers_[i]) ELSE span[i]]

\* pipeline/__init__.py:248-282  renumber_pdbx.  zip(*no_gaps) of a
\* numbering without residues cannot be unpacked: the ValueError leaves the
\* function before a residue is touched.
RenumberPdbx ==
    /\ rpc # "idle"
    /\ applications < MaxApply
    /\ IF NoGaps(numbering_result) = <<>>
       THEN /\ rpc' = "raised"
            /\ polymer' = polymer
       ELSE /\ rpc' = "returned"
            /\ polymer' =
                   WriteNumbers(polymer, NumbersToWrite(polymer, numbering_result))
    /\ applications' = applications + 1
    /\ renumbered_once' = IF applications = 0 THEN polymer' ELSE renumbered_once
    /\ UNCHANGED numbering_result
    /\ UNCHANGED notRenVars

RenInit ==
    /\ polymer \in Chains
    /\ numbering_result \in NumberingResults
    /\ renumbered_once = None
    /\ applications = 0
    /\ rpc = "call"
    /\ OrchIdle
    /\ ImgtIdle
    /\ CsvIdle
    /\ WinIdle
    /\ CoerceIdle
    /\ OthersIdle

RenNext == RenumberPdbx

SpecRenumber == RenInit /\ [][RenNext]_vars

\* C8: renumber_pdbx is idempotent.  Once it has been applied to a chain,
\* applying it again with the same numbering result leaves every residue
\* with the seqid the first application left it.
C8_Idempotent ==
    applications >= 2 => polymer = renumbered_once

\* Two applications that return, with a backfilled residue in front: the
\* chain's first residue is numbered 0 both times.
C8_Witness ==
    /\ applications = 2
    /\ rpc = "returned"
    /\ Len(polymer) = 3
    /\ polymer[1].seqid = <<0, " ">>
    /\ polymer[2].seqid = <<1, " ">>
    /\ polymer = renumbered_once

\* C9: renumber_pdbx does not return normally when the chain has fewer
\* residues than there are numbers to write (the backfill and the
\* numbering's residues).
C9_MismatchReported ==
    (rpc = "returned" /\ applications = 1) =>
        Len(NumbersToWrite(polymer, numbering_result)) <= Len(polymer)

\* renumber_pdbx has returned although the chain is shorter than the
\* numbers to write, and the chain carries a prefix of them.
C9_Truncated ==
    /\ rpc = "returned"
    /\ applications = 1
    /\ Len(NumbersToWrite(polymer, numbering_result)) > Len(polymer)
    /\ \A i \in DOMAIN polymer :
           polymer[i].seqid = NumbersToWrite(polymer, numbering_result)[i]

(***************************************************************************)
(* coerce_input (input_data_processing/__init__.py)                        *)
(*                                                                         *)
(* A Python value is a record of its type, its text (a str or a Path) and  *)
(* its items (a list, a tuple, or a dict as its key-value tuples).  A      *)
(* returned dict is the sequence of its <<key, value>> entries in          *)
(* insertion order, the key a string and the value a Python value.         *)
(***************************************************************************)
MaxListLen == 10     \* sequences in a list of equal sequences
MaxShortList == 2    \* sequences in a list of differing sequences

Str(s) == [type |-> "str", value |-> s, items |-> <<>>]
Tuple(a, b) == [type |-> "tuple", value |-> "", items |-> <<Str(a), Str(b)>>]
List(xs) == [type |-> "list", value |-> "", items |-> xs]
Dict(pairs) == [type |-> "dict", value |-> "", items |-> pairs]
Path(p) == [type |-> "Path", value |-> p, items |-> <<>>]
PyInt(digits) == [type |-> "int", value |-> digits, items |-> <<>>]
PyNone == [type |-> "NoneType", value |-> "", items |-> <<>>]
Tuple3(a, b, c) ==
    [type |-> "tuple", value |-> "", items |-> <<Str(a), Str(b), Str(c)>>]

SeqStrings == {"A", "AC", "ACD", "x.fa"}
SeqNames == {"H", "HC"}

StrInputs == {Str(s) : s \in SeqStrings \cup {""}}
TupleInputs == {Tuple(n, s) : n \in SeqNames, s \in SeqStrings}
ListInputs ==
    {List([i \in 1..n |-> Str(s)]) : n \in 0..MaxListLen, s \in SeqStrings}
    \cup UNION {{List([i \in 1..n |-> Str(f[i])]) : f \in [1..n -> SeqStrings]} :
                n \in 0..MaxShortList}
PairLists == UNION {[1..n -> TupleInputs] : n \in 0..MaxShortList}
PairListInputs == {List(ps) : ps \in PairLists}
DictInputs ==
    {Dict(ps) : ps \in {p \in PairLists :
        \A i, j \in DOMAIN p : i # j => p[i].items[1] # p[j].items[1]}}
PathInputs == {Path("x.fa")}

\* Values of none of the shapes of Input: a number, None, a tuple of three
\* strings, and lists that hold a number.
OtherInputs ==
    {PyInt("5"), PyNone, Tuple3("H", "AC", "ACD"),
     List(<<PyInt("5")>>), List(<<PyInt("5"), Str("ACD")>>),
     List(<<Str("ACD"), PyInt("5")>>), List(<<Str("AC"), PyInt("5")>>)}

\* len(v)
PyLen(v) == IF v.type \in {"str", "Path"} THEN Len(v.value) ELSE Len(v.items)

\* iter(v): the characters of a str, the items of a list or tuple.
PyIter(v) ==
    IF v.type = "str"
    THEN [i \in 1..Len(v.value) |-> Str(SubSeq(v.value, i, i))]
    ELSE v.items

\* d[k] = v on the entries of a dict: a key already there keeps its place.
DictSet(d, k, v) ==
    IF \E i \in DOMAIN d : d[i][1] = k
    THEN [i \in DOMAIN d |-> IF d[i][1] = k THEN <<k, v>> ELSE d[i]]
    ELSE Append(d, <<k, v>>)

RECURSIVE DictOfPairs(_, _)
DictOfPairs(d, pairs) ==
    IF pairs = <<>> THEN d
    ELSE LET p == PyIter(Head(pairs))
         IN DictOfPairs(DictSet(d, p[1].value, p[2]), Tail(pairs))

Returned(entries) == [kind |-> "dict", items |-> entries]
Raised(exception) == [kind |-> exception, items |-> <<>>]
FileInput == [kind |-> "file_input", items |-> <<>>]

\* Whether iter(v) is defined.
Iterable(v) == v.type \in {"str", "list", "tuple", "dict"}

\* input_data_processing/__init__.py:93  dict(input_data): a copy of a
\* dict; of another iterable, the dict of its items, each of which must
\* itself be an iterable of two.  The first item that is not decides the
\* error: a TypeError when it cannot be iterated, a ValueError when it has
\* another length.  A TypeError for what cannot be iterated at all.
PyDict(v) ==
    CASE v.type = "dict" -> Returned(DictOfPairs(<<>>, v.items))
      [] ~Iterable(v) -> Raised("TypeError")
      [] OTHER ->
            LET items == PyIter(v)
                bad == {i \in DOMAIN items :
                            ~Iterable(items[i]) \/ PyLen(items[i]) # 2}
            IN IF bad = {} THEN Returned(DictOfPairs(<<>>, items))
               ELSE LET first == CHOOSE i \in bad : \A j \in bad : i <= j
                    IN IF Iterable(items[first]) THEN Raised("ValueError")
                       ELSE Raised("TypeError")

\* input_data_processing/__init__.py:106  Path(input_data).suffix is not
\* empty: the last dot of the name is neither its first nor its last
\* character.
HasSuffix(s) ==
    LET dots == {i \in 1..Len(s) : SubSeq(s, i, i) = "."}
    IN /\ dots # {}
       /\ LET last == CHOOSE i \in dots : \A j \in dots : j <= i
          IN 1 < last /\ last < Len(s)

RECURSIVE ZeroPad(_, _)
\* input_data_processing/__init__.py:122  f"{i:0{width}d}"
ZeroPad(digits, width) ==
    IF Len(digits) >= width THEN digits ELSE ZeroPad("0" \o digits, width)

\* input_data_processing/__init__.py:120-123  the labels of a list of
\* sequences.
LabelledList(xs) ==
    LET width == Len(ToString(Len(xs)))
    IN [i \in DOMAIN xs |->
           <<"Sequence " \o ZeroPad(ToString(i), width), xs[i]>>]

\* input_data_processing/__init__.py:65-125  coerce_input.
coerce_input(v) ==
    LET d == PyDict(v) IN
    CASE d.kind = "dict" -> d
      [] d.kind = "TypeError" ->
            IF v.type = "Path" THEN FileInput ELSE Raised("TypeError")
      [] d.kind = "ValueError" ->
            CASE v.type = "str" ->
                    IF HasSuffix(v.value) THEN FileInput
                    ELSE Returned(<<<<"Sequence", v>>>>)
              [] v.type = "tuple" ->
                    \* name, sequence = input_data
                    IF Len(v.items) = 2
                    THEN Returned(<<<<v.items[1].value, v.items[2]>>>>)
                    ELSE Raised("ValueError")
              [] v.type = "list" -> Returned(LabelledList(v.items))
              [] OTHER -> Raised("TypeError")

CoerceInput ==
    /\ kpc = "call"
    /\ coerced' = coerce_input(input_data)
    /\ kpc' = "done"
    /\ UNCHANGED input_data
    /\ UNCHANGED notCoerceVars

CoerceInit ==
    /\ input_data \in StrInputs \cup TupleInputs \cup ListInputs
                      \cup PairListInputs \cup DictInputs \cup PathInputs
                      \cup OtherInputs
    /\ coerced = None
    /\ kpc = "call"
    /\ OrchIdle
    /\ ImgtIdle
    /\ CsvIdle
    /\ WinIdle
    /\ RenIdle
    /\ OthersIdle

CoerceNext == CoerceInput

SpecCoerce == CoerceInit /\ [][CoerceNext]_vars

\* A list of sequence strings that come without names.
BareList(v) ==
    /\ v.type = "list"
    /\ \A i \in DOMAIN v.items :
           v.items[i].type = "str" /\ ~HasSuffix(v.items[i].value)

\* A single sequence string: a str that is no file name.
BareString(v) == v.type = "str" /\ ~HasSuffix(v.value)

\* C10: sequences without a name are named deterministically.  A list of n
\* bare sequence strings gives n entries named sequence-1 .. sequence-n,
\* the index zero-padded to the digit width of n, in list order and each
\* with its whole string; one bare sequence string gives the one entry
\* named sequence; the names are pairwise distinct.
C10_GeneratedNames ==
    kpc = "done" =>
        /\ BareList(input_data) =>
            /\ coerced.kind = "dict"
            /\ Len(coerced.items) = Len(input_data.items)
            /\ \A i \in DOMAIN coerced.items :
                   coerced.items[i] =
                       <<"sequence-" \o ZeroPad(ToString(i),
                                                Len(ToString(Len(input_data.items)))),
                         input_data.items[i]>>
        /\ BareString(input_data) =>
               coerced = Returned(<<<<"sequence", input_data>>>>)

\* What the code gives instead: the names are "Sequence" and "Sequence i",
\* and that only when some string is not two characters long; a list of
\* two-character strings, and the empty string, go through dict() and get
\* no generated name.
C10_AsCoded ==
    kpc = "done" =>
        /\ BareList(input_data) =>
            IF \A i \in DOMAIN input_data.items :
                   Len(input_data.items[i].value) = 2
            THEN /\ coerced.kind = "dict"
                 /\ \A i \in DOMAIN coerced.items :
                        /\ Len(coerced.items[i][1]) = 1
                        /\ Len(coerced.items[i][2].value) = 1
            ELSE /\ coerced.kind = "dict"
                 /\ Len(coerced.items) = Len(input_data.items)
                 /\ \A i \in DOMAIN coerced.items :
                        coerced.items[i] =
                            <<"Sequence " \o ZeroPad(ToString(i),
                                                 Len(ToString(Len(input_data.items)))),
                              input_data.items[i]>>
        /\ BareString(input_data) =>
               coerced = IF input_data.value = "" THEN Returned(<<>>)
                         ELSE Returned(<<<<"Sequence", input_data>>>>)

\* coerce_input(["ACD"]) has returned {"Sequence 1": "ACD"}.
C10_SequenceSpaceOne ==
    /\ kpc = "done"
    /\ input_data = List(<<Str("ACD")>>)
    /\ coerced = Returned(<<<<"Sequence 1", Str("ACD")>>>>)

\* An input that carries its names: a name-sequence pair, a list of such
\* pairs or a mapping, no name twice.
NamedInput(v) ==
    /\ \/ v.type = "tuple" /\ Len(v.items) = 2
       \/ v.type = "dict"
       \/ /\ v.type = "list"
          /\ v.items # <<>>
          /\ \A i \in DOMAIN v.items :
                 v.items[i].type = "tuple" /\ Len(v.items[i].items) = 2
    /\ v.type # "tuple" =>
           \A i, j \in DOMAIN v.items :
               i # j => v.items[i].items[1] # v.items[j].items[1]

\* The name-sequence pairs of a named input, in its order.
NamedPairs(v) ==
    IF v.type = "tuple" THEN <<<<v.items[1].value, v.items[2]>>>>
    ELSE [i \in DOMAIN v.items |->
              <<v.items[i].items[1].value, v.items[i].items[2]>>]

\* C11: for an input that carries its names, coerce_input returns the
\* mapping of exactly its name-sequence pairs, names and sequences as
\* given, in the input's order.
C11_NamedUnmodified ==
    (kpc = "done" /\ NamedInput(input_data)) =>
        coerced = Returned(NamedPairs(input_data))

\* What the code gives: the pairs as given, except for a single pair whose
\* name and sequence both have two characters, which dict() takes for two
\* pairs of characters.
C11_AsCoded ==
    (kpc = "done" /\ NamedInput(input_data)) =>
        IF /\ input_data.type = "tuple"
           /\ Len(input_data.items[1].value) = 2
           /\ Len(input_data.items[2].value) = 2
        THEN coerced # Returned(NamedPairs(input_data))
        ELSE coerced = Returned(NamedPairs(input_data))

\* coerce_input(("HC", "AC")) has returned {"H": "C", "A": "C"}.
C11_PairOfTwoCharacters ==
    /\ kpc = "done"
    /\ input_data = Tuple("HC", "AC")
    /\ coerced = Returned(<<<<"H", Str("C")>>, <<"A", Str("C")>>>>)

\* A value of one of the shapes of Input: a path, a string, a name-sequence
\* pair, a list of strings, a list of name-sequence pairs, a mapping.
AcceptedShape(v) ==
    \/ v.type \in {"Path", "str", "dict"}
    \/ v.type = "tuple" /\ Len(v.items) = 2
           /\ \A i \in DOMAIN v.items : v.items[i].type = "str"
    \/ /\ v.type = "list"
       /\ \/ \A i \in DOMAIN v.items : v.items[i].type = "str"
          \/ \A i \in DOMAIN v.items :
                 v.items[i].type = "tuple" /\ Len(v.items[i].items) = 2

\* C12: an input of none of the accepted shapes makes coerce_input raise
\* TypeError.
C12_InvalidInputType ==
    (kpc = "done" /\ ~AcceptedShape(input_data)) => coerced = Raised("TypeError")

\* coerce_input(["ACD", 5]) has returned {"Sequence 1": "ACD",
\* "Sequence 2": 5}.
C12_ListWithNumberAccepted ==
    /\ kpc = "done"
    /\ input_data = List(<<Str("ACD"), PyInt("5")>>)
    /\ coerced = Returned(<<<<"Sequence 1", Str("ACD")>>,
                            <<"Sequence 2", PyInt("5")>>>>)

\* coerce_input(("H", "AC", "ACD")) has raised ValueError.
C12_TripleRaisesValueError ==
    /\ kpc = "done"
    /\ input_data = Tuple3("H", "AC", "ACD")
    /\ coerced = Raised("ValueError")

\* What the code keeps of C12: a value that cannot be iterated, and a list
\* whose first wrong item is no iterable, raise TypeError.
C12_AsCoded ==
    (kpc = "done" /\ input_data \in
        {PyInt("5"), PyNone, List(<<PyInt("5")>>),
         List(<<PyInt("5"), Str("ACD")>>), List(<<Str("AC"), PyInt("5")>>)})
    => coerced = Raised("TypeError")

(***************************************************************************)
(* split_sequences (input_data_processing/__init__.py)                     *)
(*                                                                         *)
(* A mapping is the sequence of its <<name, sequence>> items, both         *)
(* strings.                                                                *)
(***************************************************************************)
MaxSplitSeqs == 2    \* entries of the mapping given to split_sequences

SplitNames == {"a", "a-1", "b"}
SplitStrings ==
    {"AC", "A-C", "-A/C-", "A--C", "A\\C", "--", "A-A-A-A-A-A-A-A-A-A"}

SplitInputs ==
    UNION {{[i \in 1..n |-> <<names[i], strings[i]>>] :
                names \in {f \in [1..n -> SplitNames] : IsInjective(f)},
                strings \in [1..n -> SplitStrings]} :
           n \in 0..MaxSplitSeqs}

\* input_data_processing/__init__.py:30  paired_sequence_delimiters
IsDelimiter(c) == c \in {"-", "\\", "/"}

\* The places of s that hold a delimiter.
DelimiterPlaces(s) == {i \in 1..Len(s) : IsDelimiter(SubSeq(s, i, i))}

\* input_data_processing/__init__.py:147  sequence.strip(delimiters)
StripDelimiters(s) ==
    LET kept == (1..Len(s)) \ DelimiterPlaces(s)
    IN IF kept = {} THEN ""
       ELSE SubSeq(s, CHOOSE i \in kept : \A j \in kept : i <= j,
                      CHOOSE i \in kept : \A j \in kept : j <= i)

RECURSIVE SplitOnDelimiters(_)
\* input_data_processing/__init__.py:158  re.split(split_pattern, sequence)
SplitOnDelimiters(s) ==
    LET places == DelimiterPlaces(s)
    IN IF places = {} THEN <<s>>
       ELSE LET p == CHOOSE i \in places : \A j \in places : i <= j
            IN <<SubSeq(s, 1, p - 1)>>
               \o SplitOnDelimiters(SubSeq(s, p + 1, Len(s)))

\* input_data_processing/__init__.py:128-165  split_sequence: the
\* name-sequence pairs it yields.
split_sequence(name, sequence) ==
    LET stripped == StripDelimiters(sequence)
    IN IF DelimiterPlaces(stripped) # {}
       THEN LET split_parts == SplitOnDelimiters(stripped)
                width == Len(ToString(Len(split_parts)))
            IN [i \in DOMAIN split_parts |->
                   <<name \o "-" \o ZeroPad(ToString(i), width), split_parts[i]>>]
       ELSE <<<<name, stripped>>>>

\* input_data_processing/__init__.py:186  chain.from_iterable(map(...))
ChainedParts(items) ==
    Concat([i \in DOMAIN items |-> split_sequence(items[i][1], items[i][2])])

\* input_data_processing/__init__.py:168-186  split_sequences: the dict of
\* the chained pairs.
split_sequences(items) == DictUpdate(<<>>, ChainedParts(items))

SplitSequences ==
    /\ spc = "call"
    /\ split_result' = split_sequences(split_seqs)
    /\ spc' = "done"
    /\ UNCHANGED split_seqs
    /\ UNCHANGED notSplitVars

SplitInit ==
    /\ split_seqs \in SplitInputs
    /\ split_result = <<>>
    /\ spc = "call"
    /\ OrchIdle
    /\ ImgtIdle
    /\ CsvIdle
    /\ WinIdle
    /\ RenIdle
    /\ CoerceIdle
    /\ MethIdle
    /\ StreamIdle

SplitNext == SplitSequences

SpecSplit == SplitInit /\ [][SplitNext]_vars

\* The entries the claim gives one input entry: its k parts named name-1 ..
\* name-k, the index zero-padded to the digit count of k, when the stripped
\* sequence still holds a delimiter, and the entry itself otherwise.
ClaimedEntries(name, sequence) ==
    LET stripped == StripDelimiters(sequence)
        parts == SplitOnDelimiters(stripped)
        k == Len(parts)
    IN IF k > 1
       THEN [i \in 1..k |->
                <<name \o "-" \o ZeroPad(ToString(i), Len(ToString(k))),
                  parts[i]>>]
       ELSE <<<<name, stripped>>>>

\* C13: the result of split_sequences is, entry after entry of the input
\* and in the input's order, the parts of a sequence with an inner
\* delimiter under their suffixed names, or the entry itself under its own
\* name.
C13_SplitInPlace ==
    spc = "done" =>
        split_result =
            Concat([i \in DOMAIN split_seqs |->
                       ClaimedEntries(split_seqs[i][1], split_seqs[i][2])])

\* What the code keeps of C13: the claimed entries, whenever no suffixed
\* name is also the name of another entry of the result.
C13_AsCoded ==
    (spc = "done" /\ IsInjective(DictKeys(ChainedParts(split_seqs)))) =>
        split_result =
            Concat([i \in DOMAIN split_seqs |->
                       ClaimedEntries(split_seqs[i][1], split_seqs[i][2])])

\* split_sequences({"a": "A-C", "a-1": "AC"}) has returned
\* {"a-1": "AC", "a-2": "C"}.
C13_PartOverwritten ==
    /\ spc = "done"
    /\ split_seqs = <<<<"a", "A-C">>, <<"a-1", "AC">>>>
    /\ split_result = <<<<"a-1", "AC">>, <<"a-2", "C">>>>

\* A sequence of ten parts has been split under the names b-01 .. b-10.
C13_TenParts ==
    /\ spc = "done"
    /\ split_seqs = <<<<"b", "A-A-A-A-A-A-A-A-A-A">>>>
    /\ Len(split_result) = 10
    /\ split_result[1][1] = "b-01"
    /\ split_result[10][1] = "b-10"

(***************************************************************************)
(* Anarcii.to_scheme and the serialisers of pipeline/methods.py            *)
(*                                                                         *)
(* The methods are called between number() calls, never inside one.  A     *)
(* method call is recorded with the way it ended and the ResultSet its     *)
(* output was made from.                                                   *)
(***************************************************************************)
MaxMethodSeqs == 2     \* longest mapping numbered before a method is called
MaxMethodRuns == 2     \* number() calls on the orchestrator
MaxMethodCalls == 2    \* method calls on the orchestrator

MethodInputs ==
    {[i \in 1..n |-> "s" \o ToString(i)] : n \in 0..MaxMethodSeqs}

Schemes == {"kabat", "martin"}

\* Every variable of the orchestrator but self._last_numbered_output.
orchRest == <<seq_type, max_seqs_len, files, pc, runs, seqs, n_seqs,
              serialise, pos, chunks, chunk, classified, numbered, ret>>

notMethVars == <<imgtVars, csvVars, winVars, renVars, coerceVars, splitVars,
                 streamVars>>

\* bool(v) of a retained output: None and the empty dict are false.
Truthy(v) == v.kind = "path" \/ (v.kind = "dict" /\ v.items # <<>>)

RECURSIVE FileItems(_)
\* The key-value items of the msgpack map stored in a file.
FileItems(content) ==
    IF Len(content) < 2 THEN <<>>
    ELSE IF content[1].pack = "str"
         THEN <<<<content[1].name, content[2].res>>>>
              \o FileItems(SubSeq(content, 3, Len(content)))
         ELSE FileItems(Tail(content))

\* A result converted to a scheme: a new result, the numbered one is left
\* as it is.
Converted(items, scheme) ==
    [kind |-> "dict",
     items |-> [i \in DOMAIN items |->
                   <<items[i][1],
                     [query |-> items[i][2].query, model |-> items[i][2].model,
                      scheme |-> scheme]>>]]

\* convert_number_scheme(numbered, scheme): what it may do.  It converts a
\* ResultSet held in memory; what it does with the path of a streamed
\* output is not known, it may raise or convert the entries of the file.
convert_number_scheme(out, scheme) ==
    CASE out.kind = "dict" ->
            {[raised |-> FALSE, value |-> Converted(out.items, scheme)]}
      [] out.kind = "path" ->
            {[raised |-> TRUE, value |-> None],
             [raised |-> FALSE,
              value |-> Converted(FileItems(files[out.id]), scheme)]}
      [] OTHER -> {[raised |-> TRUE, value |-> None]}

\* pipeline/methods.py:38,67,101,148 and pipeline/__init__.py:220
\* self._last_numbered_output is None
HasNoOutputMut(out) == FALSE
HasNoOutput(out) == out = None

\* self.max_len_exceed: pipeline/__init__.py:103-119 never assigns it, so
\* reading it raises AttributeError.
max_len_exceedMut == [raised |-> FALSE, value |-> FALSE]
max_len_exceed == [raised |-> TRUE, value |-> FALSE]

Ended(name, outcome, value) ==
    [kind |-> "call", name |-> name, outcome |-> outcome, value |-> value]

\* pipeline/methods.py:65-96 and 99-143  to_csv and to_json have the same
\* branches: how the call ends and the ResultSet written, if one is.
\* self.text_ is never assigned either.
SerialiserEnd(name) ==
    IF HasNoOutput(last_numbered_output)
    THEN Ended(name, "ValueError", None)
    ELSE IF Truthy(last_converted_output)
    THEN IF max_len_exceed.raised THEN Ended(name, "AttributeError", None)
         ELSE IF ~max_len_exceed.value
              THEN Ended(name, "written", last_converted_output)
              ELSE Ended(name, "ValueError", None)
    ELSE IF max_len_exceed.raised THEN Ended(name, "AttributeError", None)
         ELSE IF max_len_exceed.value
              THEN Ended(name, "AttributeError", None)
              ELSE Ended(name, "written", last_numbered_output)

\* A method may be called: no number() call is running.
MethodCall ==
    /\ pc \in {"idle", "returned"}
    /\ ncalls < MaxMethodCalls
    /\ ncalls' = ncalls + 1

Serialiser(name) ==
    /\ MethodCall
    /\ call' = SerialiserEnd(name)
    /\ written' = IF SerialiserEnd(name).outcome = "written"
                  THEN Append(written, SerialiserEnd(name))
                  ELSE written
    /\ UNCHANGED <<last_numbered_output, last_converted_output, alt_scheme>>
    /\ UNCHANGED orchRest
    /\ UNCHANGED notMethVars

\* pipeline/methods.py:65-96
ToCsv == Serialiser("to_csv")

\* pipeline/methods.py:99-143
ToJson == Serialiser("to_json")

\* pipeline/methods.py:32-62  to_list
ToList ==
    /\ MethodCall
    /\ call' =
        IF HasNoOutput(last_numbered_output)
        THEN Ended("to_list", "ValueError", None)
        ELSE IF Truthy(last_converted_output)
        THEN Ended("to_list", "returned", last_converted_output)
        ELSE IF last_numbered_output.kind = "dict"
        THEN Ended("to_list", "returned", last_numbered_output)
        ELSE Ended("to_list", "AttributeError", None)
    /\ UNCHANGED <<last_numbered_output, last_converted_output, alt_scheme,
                   written>>
    /\ UNCHANGED orchRest
    /\ UNCHANGED notMethVars

\* pipeline/methods.py:146-159  to_imgt_regions
ToImgtRegions ==
    /\ MethodCall
    /\ call' =
        IF HasNoOutput(last_numbered_output)
        THEN Ended("to_imgt_regions", "ValueError", None)
        ELSE IF max_len_exceed.raised \/ max_len_exceed.value
        THEN Ended("to_imgt_regions", "AttributeError", None)
        ELSE Ended("to_imgt_regions", "returned", last_numbered_output)
    /\ UNCHANGED <<last_numbered_output, last_converted_output, alt_scheme,
                   written>>
    /\ UNCHANGED orchRest
    /\ UNCHANGED notMethVars

\* pipeline/__init__.py:218-233  to_scheme
ToSchemeMut ==
    /\ MethodCall
    /\ \E scheme \in Schemes :
        IF HasNoOutput(last_numbered_output)
        THEN /\ call' = Ended("to_scheme", "ValueError", None)
             /\ UNCHANGED <<last_numbered_output, last_converted_output,
                            alt_scheme>>
        ELSE \E r \in convert_number_scheme(last_numbered_output, scheme) :
            IF r.raised
            THEN /\ call' = Ended("to_scheme", "Error", None)
                 /\ UNCHANGED <<last_numbered_output, last_converted_output,
                                alt_scheme>>
            ELSE /\ call' = Ended("to_scheme", "returned", r.value)
                 /\ last_numbered_output' = r.value
                 /\ last_converted_output' = r.value
                 /\ alt_scheme' = [kind |-> "scheme", name |-> scheme]
    /\ UNCHANGED written
    /\ UNCHANGED orchRest
    /\ UNCHANGED notMethVars
ToScheme ==
    /\ MethodCall
    /\ \E scheme \in Schemes :
        IF HasNoOutput(last_numbered_output)
        THEN /\ call' = Ended("to_scheme", "ValueError", None)
             /\ UNCHANGED <<last_converted_output, alt_scheme>>
        ELSE \E r \in convert_number_scheme(last_numbered_output, scheme) :
            IF r.raised
            THEN /\ call' = Ended("to_scheme", "Error", None)
                 /\ UNCHANGED <<last_converted_output, alt_scheme>>
            ELSE /\ call' = Ended("to_scheme", "returned", r.value)
                 /\ last_converted_output' = r.value
                 /\ alt_scheme' = [kind |-> "scheme", name |-> scheme]
    /\ UNCHANGED <<last_numbered_output, written>>
    /\ UNCHANGED orchRest
    /\ UNCHANGED notMethVars

\* number() on the orchestrator whose methods are called.
NumberForMethods == NumberCall(MethodInputs, MaxMethodRuns)

MethInit ==
    /\ OrchInit
    /\ seq_type = "antibody"
    /\ MethIdle
    /\ ImgtIdle
    /\ CsvIdle
    /\ WinIdle
    /\ RenIdle
    /\ CoerceIdle
    /\ SplitIdle
    /\ StreamIdle

MethNext ==
    \/ NumberForMethods
    \/ NextChunk
    \/ NumberWithType
    \/ Rekey
    \/ Emit
    \/ NumberReturn
    \/ ToScheme
    \/ ToCsv
    \/ ToJson
    \/ ToList
    \/ ToImgtRegions

\* One orchestrator: number(), to_scheme() and the serialisers in any order.
SpecMethods == MethInit /\ [][MethNext]_vars

(***************************************************************************)
(* Claims about to_scheme and the serialisers                              *)
(***************************************************************************)

\* number() has never run on the orchestrator.
NeverRun == runs = 0 /\ pc = "idle"

C16_NumberedOutputKept ==
    /\ [][(ncalls' # ncalls /\ call'.name = "to_scheme")
          => (/\ last_numbered_output' = last_numbered_output
              /\ files' = files
              /\ written' = written
              /\ orchRest' = orchRest)]_vars
    /\ [](pc = "returned" => last_numbered_output = ret)

\* to_scheme has returned twice after a run: the retained output is still
\* what number() returned and is not the converted output.
C16_Witness ==
    /\ pc = "returned"
    /\ ncalls = 2
    /\ call.name = "to_scheme"
    /\ call.outcome = "returned"
    /\ last_numbered_output = ret
    /\ last_numbered_output.kind = "dict"
    /\ Len(last_numbered_output.items) = 2
    /\ last_converted_output = call.value
    /\ last_converted_output # last_numbered_output

(***************************************************************************)
(* Claims about the classified chunk, the retained output, the entry count *)
(* of a streamed file and the order of the chunks                          *)
(***************************************************************************)

RECURSIVE GroupNames(_)
\* The names of the groups of a classifier output, group after group.
GroupNames(groups) ==
    IF groups = <<>> THEN <<>>
    ELSE Head(groups)[2] \o GroupNames(Tail(groups))

\* C17: with seq_type 'unknown' the groups the classifier returns for a
\* chunk hold every name of the chunk exactly once; the merged results
\* hold one result for each name of the chunk and for no other name, so
\* restoring the chunk's key order never raises KeyError and gives exactly
\* the chunk's names in the chunk's order.
C17_ClassifiedMerge ==
    /\ pc = "number_classified" =>
        LET names == DictKeys(numbered) \o GroupNames(classified) IN
            /\ Len(names) = Len(chunk)
            /\ Range(names) = Range(chunk)
    /\ (pc = "number_classified" /\ classified = <<>>) =>
        /\ HasKeys(numbered, chunk)
        /\ Len(numbered) = Len(chunk)
    /\ pc # "KeyError"
    /\ (seq_type = "unknown" /\ pc = "emit") =>
        /\ DictKeys(numbered) = chunk
        /\ \A i \in DOMAIN numbered : numbered[i][2].query = chunk[i]

\* A chunk of two sequences was classified into an antibody and a TCR,
\* numbered by type, merged and put back in the chunk's order.
C17_Witness ==
    /\ seq_type = "unknown"
    /\ pc = "emit"
    /\ Len(chunk) = 2
    /\ DictKeys(numbered) = chunk
    /\ numbered[1][2].model = "tcr"
    /\ numbered[2][2].model = "antibody"

\* C18: when a number() call returns, the retained output is the value
\* returned and is the result of that call: it exposes exactly the names of
\* that call's normalised input, also when that input is empty, and a
\* streamed output is the file that call created.
C18_ReplaceOnNumber ==
    pc = "returned" =>
        /\ last_numbered_output = ret
        /\ ExposedKeys(last_numbered_output) = seqs
        /\ serialise => /\ last_numbered_output.kind = "path"
                        /\ last_numbered_output.id = Len(files)

\* The part of C18 the code keeps: a call over a non-empty input replaces
\* the retained output by its own result.
C18_AsCoded ==
    (pc = "returned" /\ n_seqs > 0) =>
        /\ last_numbered_output = ret
        /\ ExposedKeys(last_numbered_output) = seqs
        /\ IF serialise
           THEN /\ last_numbered_output.kind = "path"
                /\ last_numbered_output.id = Len(files)
           ELSE last_numbered_output.kind = "dict"

\* A second call over an empty input has returned and the retained output
\* still holds the entries of the first call.
C18_StaleOutput ==
    /\ pc = "returned"
    /\ runs = 2
    /\ n_seqs = 0
    /\ last_numbered_output = ret
    /\ ExposedKeys(last_numbered_output) # <<>>

\* The number of items of a kind a file holds.
Packed(content, kind) ==
    Cardinality({j \in DOMAIN content : content[j].pack = kind})

\* C19: in streaming mode, at every point of the run the file holds at
\* most as many entries as its header declares, and when number() returns
\* it holds as many as declared, which is the number of sequences of the
\* normalised input.
C19_DeclaredCount ==
    (serialise /\ pc # "idle") =>
        LET content == files[last_numbered_output.id]
            declared == content[1].n
        IN  /\ content[1].pack = "map_header"
            /\ Packed(content, "str") <= declared
            /\ Packed(content, "map") <= declared
            /\ pc = "returned" =>
                /\ Packed(content, "str") = declared
                /\ Packed(content, "map") = declared
                /\ declared = n_seqs
                /\ declared = Len(seqs)

\* A streaming run over three sequences in chunks of two has returned: the
\* header declares three entries and three were appended.
C19_Witness ==
    /\ serialise
    /\ pc = "returned"
    /\ max_seqs_len = 2
    /\ Len(seqs) = 3
    /\ files[last_numbered_output.id][1].n = 3
    /\ Packed(files[last_numbered_output.id], "str") = 3

\* The results of the last chunk taken are re-keyed and given out: appended
\* to the file in streaming mode, retained otherwise.
LastChunkGivenOut ==
    chunks # <<>> =>
        /\ DictKeys(numbered) = chunks[Len(chunks)]
        /\ IF serialise
           THEN StreamKeys(files[last_numbered_output.id]) = Concat(chunks)
           ELSE /\ last_numbered_output.kind = "dict"
                /\ last_numbered_output.items = numbered

\* C20: the chunks are processed one after another in input order.  A
\* chunk is taken only when the chunk before it has been numbered, re-keyed
\* and given out; the classifier and the numbering model work on the last
\* chunk taken only; at no time is more than one chunk in progress.
C20_OneChunkAtATime ==
    /\ [][Len(chunks') = Len(chunks) + 1 =>
            /\ pc = "loop"
            /\ LastChunkGivenOut
            /\ chunk' = chunks'[Len(chunks')]
            /\ IsPrefix(Concat(chunks'), seqs)]_vars
    /\ [](Len(chunks) - Len(CompletedChunks) <= 1)
    /\ [](pc \in {"classify", "number_classified", "number", "rekey", "emit"}
            => /\ chunks # <<>>
               /\ chunk = chunks[Len(chunks)]
               /\ serialise =>
                    StreamKeys(files[last_numbered_output.id])
                        = Concat(SubSeq(chunks, 1, Len(chunks) - 1)))

\* The second chunk of a streaming run is with the numbering model and the
\* file holds the entries of the first chunk.
C20_Witness ==
    /\ serialise
    /\ pc = "number"
    /\ Len(chunks) = 2
    /\ chunk = chunks[2]
    /\ StreamKeys(files[last_numbered_output.id]) = chunks[1]

(***************************************************************************)
(* Further claims about renumber_pdbx                                      *)
(***************************************************************************)

\* The places, counted from 0, at which the residues sub occur in the
\* chain's one-letter sequence.
Occurrences(span, sub) ==
    {p \in 0..(Len(span) - Len(sub)) :
        \A i \in 1..Len(sub) : span[p + i].name = sub[i][2]}

\* The offset as the claim resolves it: the first occurrence, or the
\* query_start the model reports.
ResolvedOffset(span, numbered_) ==
    LET places == Occurrences(span, NoGaps(numbered_))
    IN IF places = {} THEN numbered_.query_start
       ELSE CHOOSE p \in places : \A q \in places : p <= q

\* C21: the offset o is the first place where the gap-free numbered
\* sequence occurs in the chain's one-letter sequence, or query_start when
\* it occurs nowhere; after renumber_pdbx, with f the number of the first
\* non-gap numbered residue, chain residue j < o has the key (f - o + j,
\* blank) and chain residue o + i the key of the i-th non-gap numbered
\* residue.
C21_OffsetAndKeys ==
    (rpc = "returned" /\ applications = 1) =>
        LET ng == NoGaps(numbering_result)
            o == ResolvedOffset(polymer, numbering_result)
            f == ng[1][1][1]
        IN  /\ \A j \in 0..(o - 1) :
                   j + 1 <= Len(polymer) =>
                       polymer[j + 1].seqid = <<f - o + j, " ">>
            /\ \A i \in 1..Len(ng) :
                   o + i <= Len(polymer) => polymer[o + i].seqid = ng[i][1]

\* The numbered sequence, which holds a gap mark, occurs in a chain of
\* three residues at place 1 only: the residue in front is backfilled
\* and the two after it carry the numbering's keys around the gap.
C21_Witness ==
    /\ rpc = "returned"
    /\ applications = 1
    /\ Len(polymer) = 3
    /\ Len(numbering_result.numbering) = 3
    /\ numbering_result.numbering[2][2] = "-"
    /\ Len(NoGaps(numbering_result)) = 2
    /\ Occurrences(polymer, NoGaps(numbering_result)) = {1}
    /\ numbering_result.query_start = 0
    /\ polymer[1].seqid = <<0, " ">>
    /\ polymer[2].seqid = <<1, " ">>
    /\ polymer[3].seqid = <<3, " ">>

\* The numbered sequence occurs nowhere in the chain and the offset is the
\* query_start 1: the first residue is backfilled.
C21_Fallback ==
    /\ rpc = "returned"
    /\ applications = 1
    /\ Occurrences(polymer, NoGaps(numbering_result)) = {}
    /\ numbering_result.query_start = 1
    /\ Len(polymer) = 3
    /\ polymer[1].seqid = <<NoGaps(numbering_result)[1][1][1] - 1, " ">>
    /\ polymer[2].seqid = NoGaps(numbering_result)[1][1]

\* The single-residue numbered sequence occurs at places 0 and 1 of the
\* chain: the first occurrence decides.
C21_FirstOccurrence ==
    /\ rpc = "returned"
    /\ applications = 1
    /\ Occurrences(polymer, NoGaps(numbering_result)) = {0, 1}
    /\ polymer[1].seqid = NoGaps(numbering_result)[1][1]

(***************************************************************************)
(* stream_csv (output_data_processing/__init__.py)                         *)
(*                                                                         *)
(* The list of results dictionaries is a sequence that can be iterated     *)
(* more than once; write_csv is given the dictionary that merges the list  *)
(* in order.                                                               *)
(***************************************************************************)
MaxStreamSeqs == 2    \* sequences in all the dictionaries of the list

\* The results the dictionaries of a list are made of.
StreamResults(scheme) ==
    {Numbered({<<2, Blank>>}, scheme),
     Numbered({<<33, LetterA>>}, scheme),
     Numbered({<<33, LetterA>>, <<129, Blank>>}, scheme),
     Failed(scheme)}

RECURSIVE Splits(_)
\* Every way of cutting the items d into consecutive non-empty dictionaries.
Splits(d) ==
    IF d = <<>> THEN {<<>>}
    ELSE UNION {{<<SubSeq(d, 1, k)>> \o rest :
                    rest \in Splits(SubSeq(d, k + 1, Len(d)))} :
                k \in 1..Len(d)}

\* The lists stream_csv is tried on: up to MaxStreamSeqs sequences with
\* distinct names, numbered in one scheme, in one or more dictionaries.
StreamInputs ==
    UNION {UNION {Splits([i \in 1..n |-> <<"s" \o ToString(i), r[i]>>]) :
                     r \in [1..n -> StreamResults(scheme)]} :
           n \in 1..MaxStreamSeqs, scheme \in {"imgt", "kabat"}}

RECURSIVE Merged(_)
\* The list's dictionaries merged in order into one dictionary.
Merged(list) ==
    IF list = <<>> THEN <<>>
    ELSE DictUpdate(Head(list), Merged(Tail(list)))

\* output_data_processing/__init__.py:163-165  the first pass: the residue
\* numbers of every result of every dictionary.
FirstPassKeys(list) ==
    required_residue_numbers
        \cup UNION {ObservedKeys(list[i]) : i \in DOMAIN list}

\* output_data_processing/__init__.py:167-171  residue_numbers after the
\* scheme test: still the SortedSet, or the itertools.chain that imgt_order
\* returns (lines 58-69), which has the numbers in IMGT order.
ResidueNumbers(list) ==
    LET last == list[Len(list)]
        result == last[Len(last)][2]
    IN IF result.scheme = "imgt"
       THEN [type |-> "chain", in_order |-> imgt_order(FirstPassKeys(list))]
       ELSE [type |-> "SortedSet", in_order |-> SortedSeq(FirstPassKeys(list))]

\* output_data_processing/__init__.py:184  residue_numbers.update(...): a
\* SortedSet has the method, an itertools.chain has not.
HasUpdate(residue_numbers) == residue_numbers.type = "SortedSet"

\* output_data_processing/__init__.py:173-174  the columns.
StreamColumns(residue_numbers) ==
    metadata_columns
        \o [i \in DOMAIN residue_numbers.in_order |->
               ColumnName(residue_numbers.in_order[i])]

RECURSIVE StreamRows(_, _)
\* output_data_processing/__init__.py:180-197  the second pass: the rows of
\* every dictionary, written dictionary after dictionary.
StreamRows(columns, list) ==
    IF list = <<>> THEN <<>>
    ELSE [i \in DOMAIN Head(list) |->
             WriteRow(columns, RowDict(Head(list)[i][1], Head(list)[i][2]))]
         \o StreamRows(columns, Tail(list))

\* output_data_processing/__init__.py:158-197 and 226-227  stream_csv.  The
\* header is written after the first pass; the second pass calls
\* residue_numbers.update for the first result it meets, which raises
\* AttributeError when residue_numbers is no longer the SortedSet, and the
\* file is closed with the header alone.
StreamCsv ==
    /\ tpc = "call"
    /\ LET residue_numbers == ResidueNumbers(stream_numbered)
           columns == StreamColumns(residue_numbers)
       IN IF HasUpdate(residue_numbers)
          THEN /\ stream_file' =
                      <<columns>> \o StreamRows(columns, stream_numbered)
               /\ tpc' = "written"
          ELSE /\ stream_file' = <<columns>>
               /\ tpc' = "AttributeError"
    /\ UNCHANGED stream_numbered
    /\ UNCHANGED notStreamVars

StreamInit ==
    /\ stream_numbered \in StreamInputs
    /\ stream_file = <<>>
    /\ tpc = "call"
    /\ csv_numbered = Merged(stream_numbered)
    /\ csv_file = <<>>
    /\ cpc = "call"
    /\ OrchIdle
    /\ ImgtIdle
    /\ WinIdle
    /\ RenIdle
    /\ CoerceIdle
    /\ SplitIdle
    /\ MethIdle

StreamNext ==
    \/ StreamCsv
    \/ WriteCsv

\* stream_csv on a list and write_csv on the list merged, each once.
SpecStream == StreamInit /\ [][StreamNext]_vars

\* The scheme of the list's results.
StreamScheme == csv_numbered[Len(csv_numbered)][2].scheme

\* C22: for every list of non-empty results dictionaries and every scheme,
\* IMGT included, stream_csv completes and writes the header and the rows
\* that write_csv writes for the dictionary merged from the list.
C22_StreamEqualsWrite ==
    (tpc # "call" /\ cpc # "call") =>
        /\ tpc = "written"
        /\ cpc = "written"
        /\ stream_file = csv_file

\* The part of C22 the code keeps: in a scheme other than IMGT the two
\* files are the same; in IMGT the header is the one write_csv writes.
C22_AsCoded ==
    (tpc # "call" /\ cpc # "call") =>
        /\ cpc = "written"
        /\ stream_file[1] = csv_file[1]
        /\ IF StreamScheme = "imgt"
           THEN tpc = "AttributeError" /\ Len(stream_file) = 1
           ELSE tpc = "written" /\ stream_file = csv_file

\* stream_csv has raised on a list of two IMGT dictionaries and left a
\* file with the header alone, where write_csv wrote two rows.
C22_ImgtRaises ==
    /\ tpc = "AttributeError"
    /\ cpc = "written"
    /\ Len(stream_numbered) = 2
    /\ StreamScheme = "imgt"
    /\ Len(stream_file) = 1
    /\ Len(csv_file) = 3

\* In another scheme the list of two dictionaries gives the file write_csv
\* gives, with the column 33A in it.
C22_SameFile ==
    /\ tpc = "written"
    /\ cpc = "written"
    /\ Len(stream_numbered) = 2
    /\ stream_file = csv_file
    /\ Len(stream_file) = 3
    /\ \E c \in DOMAIN stream_file[1] : stream_file[1][c] = "33A"

(***************************************************************************)
(* Further claims about imgt_order                                         *)
(***************************************************************************)

\* How many times the key k is emitted.
TimesEmitted(k) == Cardinality({i \in DOMAIN ordered : ordered[i] = k})

\* C23: imgt_order is a permutation of its input: every key of the set is
\* emitted exactly once and no other key is emitted, for keys at positions
\* up to 0, at the boundaries 33, 61 and 112 with and without an insertion
\* letter, and for the empty set.
C23_Permutation ==
    ipc = "done" =>
        /\ \A k \in numbers : TimesEmitted(k) = 1
        /\ \A i \in DOMAIN ordered : ordered[i] \in numbers
        /\ numbers = {} => ordered = <<>>

\* Keys at the positions -1, 33 and 33A have been ordered, each once.
C23_Witness ==
    /\ ipc = "done"
    /\ numbers = {<<-1, Blank>>, <<33, Blank>>, <<33, LetterA>>}
    /\ ordered = <<<<-1, Blank>>, <<33, LetterA>>, <<33, Blank>>>>

\* The empty set has been ordered.
C23_Empty ==
    /\ ipc = "done"
    /\ numbers = {}
    /\ ordered = <<>>

\* The three boundaries without an insertion letter have been ordered.
C23_Boundaries ==
    /\ ipc = "done"
    /\ numbers = {<<33, Blank>>, <<61, Blank>>, <<112, Blank>>}
    /\ Len(ordered) = 3

(***************************************************************************)
(* Further claims about the serialisers                                    *)
(***************************************************************************)

\* A serialiser or to_list has just been called and has given out a
\* ResultSet.
GivesOut ==
    /\ ncalls' # ncalls
    /\ call'.name \in {"to_csv", "to_json", "to_list"}
    /\ call'.outcome \in {"returned", "written"}

\* C24: to_csv, to_json and to_list called after a number() call give out
\* the results of that call, or a conversion of them: the entries given out
\* have the names of that call's normalised input, never those of an
\* earlier call.
C24_ServesLastRun ==
    [][GivesOut => DictKeys(call'.value.items) = seqs]_vars

\* C24 for calls that follow a run over a non-empty input, which leaves
\* aside the retained output an empty run does not replace.
C24_AfterNonEmptyRun ==
    [][(GivesOut /\ n_seqs > 0) => DictKeys(call'.value.items) = seqs]_vars

\* What the code gives out: the converted output whenever one is held and
\* is not empty, whichever run it was converted from, and the retained
\* numbered output otherwise.
C24_AsCoded ==
    [][GivesOut =>
          /\ call'.value = IF Truthy(last_converted_output)
                           THEN last_converted_output
                           ELSE last_numbered_output
          /\ (~Truthy(last_converted_output) /\ n_seqs > 0) =>
                 DictKeys(call'.value.items) = seqs]_vars

\* After a second run, over s1 and s2, to_list has returned the conversion
\* made of the first run, which holds s1 only.
C24_StaleConversion ==
    /\ pc = "returned"
    /\ runs = 2
    /\ seqs = <<"s1", "s2">>
    /\ ExposedKeys(last_numbered_output) = seqs
    /\ call # None
    /\ call.name = "to_list"
    /\ call.outcome = "returned"
    /\ call.value = last_converted_output
    /\ last_converted_output # None
    /\ DictKeys(last_converted_output.items) = <<"s1">>

(***************************************************************************)
(* renumber_pdbx on a chain without a numbered residue                     *)
(***************************************************************************)

\* The chain carries the numbering of the file it was read from.
AsInFile(span) ==
    \E start \in FileStarts :
        \A i \in DOMAIN span : span[i].seqid = <<start + i, " ">>

\* C25: for a chain whose numbering result has no non-gap residue (an
\* empty numbering, or gap marks only) renumber_pdbx raises no error and
\* leaves the chain's residue numbering as it was.
C25_NoResidueNoAbort ==
    (applications >= 1 /\ NoGaps(numbering_result) = <<>>) =>
        /\ rpc = "returned"
        /\ AsInFile(polymer)

\* What the code does for such a chain: it raises, before any residue is
\* touched.
C25_AsCoded ==
    (applications >= 1 /\ NoGaps(numbering_result) = <<>>) =>
        /\ rpc = "raised"
        /\ AsInFile(polymer)

\* renumber_pdbx has raised on a numbering of gap marks only.
C25_Raised ==
    /\ applications = 1
    /\ rpc = "raised"
    /\ Len(numbering_result.numbering) = 2
    /\ NoGaps(numbering_result) = <<>>
    /\ AsInFile(polymer)

(***************************************************************************)
(* Further claims about split_sequences                                    *)
(***************************************************************************)

RECURSIVE TotalParts(_)
\* The number of parts of all the sequences of a mapping: a sequence
\* without an inner delimiter is one part.
TotalParts(items) ==
    IF items = <<>> THEN 0
    ELSE Len(SplitOnDelimiters(StripDelimiters(Head(items)[2])))
         + TotalParts(Tail(items))

\* C26: split_sequences loses no sequence: the result has one entry for
\* every part of every input sequence, under pairwise distinct names, also
\* when a suffixed part name is the name of another input entry.
C26_NoSequenceLost ==
    spc = "done" =>
        /\ Len(split_result) = TotalParts(split_seqs)
        /\ IsInjective(DictKeys(split_result))

\* What the code keeps of C26: one entry for every name yielded; that is
\* every part when the names yielded are pairwise distinct.
C26_AsCoded ==
    spc = "done" =>
        /\ Len(split_result) = Cardinality(Range(DictKeys(ChainedParts(split_seqs))))
        /\ IsInjective(DictKeys(split_result))
        /\ IsInjective(DictKeys(ChainedParts(split_seqs))) =>
               Len(split_result) = TotalParts(split_seqs)

\* The mapping a: A-C, a-1: AC has three parts and the result two entries.
C26_EntryLost ==
    /\ spc = "done"
    /\ DictKeys(split_seqs) = <<"a", "a-1">>
    /\ TotalParts(split_seqs) = 3
    /\ Len(split_result) = 2
    /\ DictKeys(split_result) = <<"a-1", "a-2">>

(***************************************************************************)
(* Further claims about coerce_input                                       *)
(***************************************************************************)

\* A list of strings, of any lengths, the empty list included.
ListOfStrings(v) ==
    v.type = "list" /\ \A i \in DOMAIN v.items : v.items[i].type = "str"

\* A tuple of two strings.
PairOfStrings(v) ==
    /\ v.type = "tuple"
    /\ Len(v.items) = 2
    /\ \A i \in DOMAIN v.items : v.items[i].type = "str"

\* Every string of the input has exactly two characters, and there is one.
AllOfTwoCharacters(v) ==
    /\ v.items # <<>>
    /\ \A i \in DOMAIN v.items : Len(v.items[i].value) = 2

\* C27: coerce_input recognises the shape of its input whatever the
\* lengths of its strings: a list of strings gives one entry for each
\* string, with the whole string as its sequence, and the empty list the
\* empty mapping; a pair of strings gives the one entry of its name and
\* its sequence; no character of a string is a name or a sequence.
C27_ShapeByType ==
    kpc = "done" =>
        /\ ListOfStrings(input_data) =>
            /\ coerced.kind = "dict"
            /\ Len(coerced.items) = Len(input_data.items)
            /\ \A i \in DOMAIN coerced.items :
                   coerced.items[i][2] = input_data.items[i]
        /\ PairOfStrings(input_data) =>
               coerced = Returned(<<<<input_data.items[1].value,
                                      input_data.items[2]>>>>)

\* What the code does: the shape is recognised as claimed unless every
\* string of the list or of the pair has exactly two characters; then
\* dict() takes each string for a pair of a one-character name and a
\* one-character sequence.
C27_AsCoded ==
    (kpc = "done"
        /\ (ListOfStrings(input_data) \/ PairOfStrings(input_data))) =>
        IF AllOfTwoCharacters(input_data)
        THEN /\ coerced.kind = "dict"
             /\ \A i \in DOMAIN coerced.items :
                    /\ Len(coerced.items[i][1]) = 1
                    /\ Len(coerced.items[i][2].value) = 1
        ELSE /\ ListOfStrings(input_data) =>
                 /\ coerced.kind = "dict"
                 /\ Len(coerced.items) = Len(input_data.items)
                 /\ \A i \in DOMAIN coerced.items :
                        coerced.items[i][2] = input_data.items[i]
             /\ PairOfStrings(input_data) =>
                    coerced = Returned(<<<<input_data.items[1].value,
                                           input_data.items[2]>>>>)

\* coerce_input(["AC"]) has returned {"A": "C"}.
C27_CharactersTaken ==
    /\ kpc = "done"
    /\ input_data = List(<<Str("AC")>>)
    /\ coerced = Returned(<<<<"A", Str("C")>>>>)

\* coerce_input([]) has returned the empty mapping.
C27_EmptyList ==
    /\ kpc = "done"
    /\ input_data = List(<<>>)
    /\ coerced = Returned(<<>>)

====
